---- MODULE Spec2Model ----
(***************************************************************************)
(* Claim quality and coverage-decision engine of Rex-AI:                   *)
(*   - fnol/checker.py        check_claim (tiered completeness score)      *)
(*   - policy/service.py      PolicyService (name check, payout, extra     *)
(*                            info, coverage, auto-resolve gate)           *)
(*   - policy/llm_coverage.py check_coverage_with_llm                      *)
(*   - policy/store.py        PolicyStore lookups by policy number         *)
(***************************************************************************)
EXTENDS Integers, Sequences, FiniteSets

(***************************************************************************)
(* Python floats.  A non-negative IEEE-754 binary64 value is either Zero   *)
(* or [m, e] with value m * 2^e, where the 53-bit mantissa m is held as a  *)
(* little-endian sequence of base-2^14 limbs (TLC integers are 32 bits).   *)
(* Every operation rounds to nearest, ties to even, as CPython does.       *)
(***************************************************************************)
MantBits == 53

LimbBits == 14

Base == 2^LimbBits

FracLimbs == 5

\* an Optional value is None or Some(v); Val gives v
None == <<>>

Some(v) == <<v>>

Val(o) == o[1]

Zero == [m |-> <<>>, e |-> 0]

RECURSIVE LStrip(_)
LStrip(a) ==
    IF a = <<>> THEN <<>>
    ELSE IF a[Len(a)] # 0 THEN a
    ELSE LStrip(SubSeq(a, 1, Len(a) - 1))

\* carry propagation over column sums, from column i with carry c
RECURSIVE LCarry(_, _, _)
LCarry(cols, i, c) ==
    IF i > Len(cols)
    THEN (IF c = 0 THEN <<>> ELSE <<c % Base>> \o LCarry(cols, i, c \div Base))
    ELSE <<(cols[i] + c) % Base>> \o LCarry(cols, i + 1, (cols[i] + c) \div Base)

LDigit(a, i) == IF i >= 1 /\ i <= Len(a) THEN a[i] ELSE 0

LMax(x, y) == IF x < y THEN y ELSE x

LAdd(a, b) ==
    LStrip(LCarry([i \in 1..LMax(Len(a), Len(b)) |-> LDigit(a, i) + LDigit(b, i)], 1, 0))

RECURSIVE ColSum(_, _, _, _)
ColSum(a, b, k, i) ==
    IF i > Len(a) THEN 0
    ELSE a[i] * LDigit(b, k + 1 - i) + ColSum(a, b, k, i + 1)

LMul(a, b) ==
    IF a = <<>> \/ b = <<>> THEN <<>>
    ELSE LStrip(LCarry([k \in 1..(Len(a) + Len(b) - 1) |-> ColSum(a, b, k, 1)], 1, 0))

LPow2(k) == [i \in 1..((k \div LimbBits) + 1) |->
                IF i = (k \div LimbBits) + 1 THEN 2^(k % LimbBits) ELSE 0]

LShl(a, k) == LMul(a, LPow2(k))

LBit(a, i) == (LDigit(a, (i \div LimbBits) + 1) \div 2^(i % LimbBits)) % 2

LBitLen(a) ==
    IF a = <<>> THEN 0
    ELSE LimbBits * (Len(a) - 1)
         + (CHOOSE n \in 1..LimbBits : 2^(n - 1) <= a[Len(a)] /\ a[Len(a)] < 2^n)

\* floor(a / 2^k)
LShr(a, k) ==
    LStrip([j \in 1..Len(a) |->
        (LDigit(a, j + (k \div LimbBits)) \div 2^(k % LimbBits))
        + (LDigit(a, j + (k \div LimbBits) + 1) % 2^(k % LimbBits))
          * 2^(LimbBits - (k % LimbBits))])

\* a < b for stripped limb sequences, comparing from limb i downwards
RECURSIVE LLessFrom(_, _, _)
LLessFrom(a, b, i) ==
    IF i = 0 THEN FALSE
    ELSE IF a[i] # b[i] THEN a[i] < b[i]
    ELSE LLessFrom(a, b, i - 1)

LLess(a, b) == IF Len(a) # Len(b) THEN Len(a) < Len(b) ELSE LLessFrom(a, b, Len(a))

\* round the exact value n * 2^e (n a stripped limb sequence) to binary64
FRound(n, e) ==
    IF n = <<>> THEN Zero
    ELSE IF LBitLen(n) <= MantBits
    THEN [m |-> LShl(n, MantBits - LBitLen(n)), e |-> e - (MantBits - LBitLen(n))]
    ELSE LET drop == LBitLen(n) - MantBits
             q    == LShr(n, drop)
             half == LBit(n, drop - 1) = 1
             more == \E i \in 0..(drop - 2) : LBit(n, i) = 1
             up   == half /\ (more \/ LBit(q, 0) = 1)
             q1   == IF up THEN LAdd(q, <<1>>) ELSE q
         IN  IF LBitLen(q1) > MantBits
             THEN [m |-> LShr(q1, 1), e |-> e + drop + 1]
             ELSE [m |-> q1, e |-> e + drop]

FAdd(x, y) ==
    IF x = Zero THEN y
    ELSE IF y = Zero THEN x
    ELSE LET e == IF x.e < y.e THEN x.e ELSE y.e
         IN  FRound(LAdd(LShl(x.m, x.e - e), LShl(y.m, y.e - e)), e)

FMul(x, y) ==
    IF x = Zero \/ y = Zero THEN Zero
    ELSE FRound(LMul(x.m, y.m), x.e + y.e)

\* the k base-2^14 fractional digits of r / d (r < d), least significant
\* first, below a lowest digit that is 1 when the expansion is inexact
RECURSIVE FracDigits(_, _, _)
FracDigits(r, d, k) ==
    IF k = 0 THEN <<IF r = 0 THEN 0 ELSE 1>>
    ELSE FracDigits((r * Base) % d, d, k - 1) \o <<(r * Base) \div d>>

\* int / int true division (0 <= n, 0 < d), which is also how the decimal
\* literal n/d (0.6 is 6/10) is read: the nearest binary64 to the quotient
FDivInt(n, d) ==
    IF n = 0 THEN Zero
    ELSE FRound(LStrip(FracDigits(n % d, d, FracLimbs) \o <<n \div d>>),
                0 - LimbBits * (FracLimbs + 1))

FLess(x, y) ==
    IF y = Zero THEN FALSE
    ELSE IF x = Zero THEN TRUE
    ELSE IF x.e # y.e THEN x.e < y.e
    ELSE LLess(x.m, y.m)

FLeq(x, y) == x = y \/ FLess(x, y)


(***************************************************************************)
(* Strings are sequences of one-character strings, so that lower(),        *)
(* strip(), split() and replace() are computed and not assumed.            *)
(***************************************************************************)
Upper == <<"A", "C", "D", "F", "L", "P", "S">>

Lower == <<"a", "c", "d", "f", "l", "p", "s">>

LowerChar(c) ==
    IF \E i \in 1..Len(Upper) : Upper[i] = c
    THEN Lower[CHOOSE i \in 1..Len(Upper) : Upper[i] = c]
    ELSE c

\* str.lower()
StrLower(s) == [i \in 1..Len(s) |-> LowerChar(s[i])]

IsSpace(c) == c = " "

\* str.strip()
RECURSIVE LStripStr(_)
LStripStr(s) ==
    IF s # <<>> /\ IsSpace(Head(s)) THEN LStripStr(Tail(s)) ELSE s

RECURSIVE RStripStr(_)
RStripStr(s) ==
    IF s # <<>> /\ IsSpace(s[Len(s)]) THEN RStripStr(SubSeq(s, 1, Len(s) - 1)) ELSE s

StrStrip(s) == RStripStr(LStripStr(s))

\* Python truthiness of an Optional[str]
Truthy(s) == s # None /\ Val(s) # <<>>

\* incident types (IncidentType values) and other words, spelled out
delay == <<"d", "e", "l", "a", "y">>

Delay == <<"D", "e", "l", "a", "y">>

loss == <<"l", "o", "s", "s">>

prediction_failure ==
    <<"p", "r", "e", "d", "i", "c", "t", "i", "o", "n", "_", "f", "a", "i", "l", "u", "r", "e">>

Prediction_Failure ==
    <<"P", "r", "e", "d", "i", "c", "t", "i", "o", "n", "_", "F", "a", "i", "l", "u", "r", "e">>

unknown == <<"u", "n", "k", "n", "o", "w", "n">>

(***************************************************************************)
(* State.                                                                  *)
(***************************************************************************)
VARIABLES
    claim,          \* the claim record (OperationalLiabilityClaim or dict)
    policy,         \* the Policy record
    claimant_name,  \* the name given to verify_claimant_name
    name_verified,  \* keyword argument of can_auto_resolve
    fraud_flagged,  \* keyword argument of can_auto_resolve
    now,            \* datetime.utcnow() at evaluation, in days
    op,             \* the function called last
    ret,            \* its outcome: Return(value) or Raise(exception)
    stage,          \* per-claim lifecycle stage
    llm,            \* the external coverage path: its client, reply and step
    db,             \* the policies table of each PolicyStore, by policy_number
    policy_number,  \* the identifier given to get_policy
    _policy_service,\* the module-level singleton of policy/service.py
    callers         \* the callers of get_policy_service, each with its position

\* the state of the policy store and of the service singleton
StoreVars == <<db, policy_number, _policy_service, callers>>

vars == <<claim, policy, claimant_name, name_verified, fraud_flagged, now,
          op, ret, stage, llm, db, policy_number, _policy_service, callers>>

(***************************************************************************)
(* fnol/checker.py: check_claim                                            *)
(***************************************************************************)
ConfidenceThreshold == FDivInt(3, 10)

Tier1Weight == FDivInt(6, 10)

Tier2Weight == FDivInt(3, 10)

Tier3Weight == FDivInt(1, 10)

\* provenance confidences are given in hundredths: 29 is the float 0.29
Confidence(p) == FDivInt(p, 100)

\* the threshold taken as low itself
LowConfidence_at_threshold(p) ==
    p # None /\ FLeq(Confidence(Val(p)), ConfidenceThreshold)

LowConfidence(p) == p # None /\ FLess(Confidence(Val(p)), ConfidenceThreshold)

Tier1Items == <<"system_logs", "incident_description", "incident_type", "asset_type">>

Tier2Items == <<"incident_location", "estimated_liability_cost", "incident_date">>

Tier3Items == <<"liability_assessment", "system_component", "multiple_logs">>

\* the condition under which each item is appended to tierN_present
ItemPresent(c, item) ==
    CASE item = "system_logs" -> c.has_system_logs /\ c.system_log_count >= 1
      [] item = "incident_description" ->
            Truthy(c.incident_description) /\ StrStrip(Val(c.incident_description)) # <<>>
      [] item = "incident_type" -> c.incident_type # unknown
      [] item = "asset_type" -> c.asset_type # "unknown"
      [] item = "incident_location" ->
            Truthy(c.incident_location) /\ StrStrip(Val(c.incident_location)) # <<>>
      [] item = "estimated_liability_cost" -> c.cost # None
      [] item = "incident_date" -> c.incident_date # None
      [] item = "liability_assessment" -> c.has_liability_assessment
      [] item = "system_component" ->
            Truthy(c.system_component) /\ StrStrip(Val(c.system_component)) # <<>>
      [] item = "multiple_logs" -> c.system_log_count >= 2

TierPresent(c, items) == SelectSeq(items, LAMBDA it : ItemPresent(c, it))

\* missing_evidence, appended tier by tier in the order of the checks
MissingEvidence(c) ==
    SelectSeq(Tier1Items \o Tier2Items \o Tier3Items, LAMBDA it : ~ItemPresent(c, it))

TierScore(c, items, weight) ==
    IF items # <<>>
    THEN FMul(FDivInt(Len(TierPresent(c, items)), Len(items)), weight)
    ELSE Zero

CompletenessScore(c) ==
    FAdd(FAdd(TierScore(c, Tier1Items, Tier1Weight),
              TierScore(c, Tier2Items, Tier2Weight)),
         TierScore(c, Tier3Items, Tier3Weight))


\* 1. low confidence on critical fields
LowConfidenceFlags(c) ==
    (IF LowConfidence(c.incident_type_provenance)
     THEN <<"Low confidence on incident type classification">> ELSE <<>>)
    \o (IF LowConfidence(c.asset_type_provenance)
        THEN <<"Low confidence on asset type classification">> ELSE <<>>)
    \o (IF LowConfidence(c.incident_description_provenance)
        THEN <<"Low confidence on incident description extraction">> ELSE <<>>)

\* the mutant: a cost below 5000 is flagged whatever the severity
SeverityCostFlags_any_severity(c) ==
    (IF c.cost # None /\ Val(c.cost) < 5000
     THEN <<"Severity marked as CRITICAL but estimated cost is low">> ELSE <<>>)
    \o (IF c.impact_severity = "severe" /\ c.cost # None /\ Val(c.cost) < 1000
        THEN <<"Severity marked as SEVERE but estimated cost is low">> ELSE <<>>)
    \o (IF c.impact_severity = "minor" /\ c.cost # None /\ Val(c.cost) > 50000
        THEN <<"Severity marked as MINOR but estimated cost is high">> ELSE <<>>)

\* 2. severity vs cost mismatches
SeverityCostFlags(c) ==
    (IF c.impact_severity = "critical" /\ c.cost # None /\ Val(c.cost) < 5000
     THEN <<"Severity marked as CRITICAL but estimated cost is low">> ELSE <<>>)
    \o (IF c.impact_severity = "severe" /\ c.cost # None /\ Val(c.cost) < 1000
        THEN <<"Severity marked as SEVERE but estimated cost is low">> ELSE <<>>)
    \o (IF c.impact_severity = "minor" /\ c.cost # None /\ Val(c.cost) > 50000
        THEN <<"Severity marked as MINOR but estimated cost is high">> ELSE <<>>)

\* 3. description but no logs
NoLogsFlags(c) ==
    IF ~c.has_system_logs /\ Truthy(c.incident_description)
    THEN <<"Incident description provided but no system logs uploaded">> ELSE <<>>

\* 4. high cost without liability assessment
HighCostFlags(c) ==
    IF c.cost # None /\ Val(c.cost) > 25000 /\ ~c.has_liability_assessment
    THEN <<"High estimated cost but no liability assessment provided">> ELSE <<>>

\* the incident date as the comparison sees it: None, or whether it carries
\* a UTC offset and its day.  A string is parsed after 'Z' and '+00:00' are
\* removed; a string that does not parse is dropped.
ParsedDate(d) ==
    CASE d.kind = "naive" -> Some([aware |-> FALSE, t |-> d.t])
      [] d.kind = "aware" -> Some([aware |-> TRUE, t |-> d.t])
      [] d.kind = "str" -> Some([aware |-> FALSE, t |-> d.t])
      [] d.kind = "str_offset" -> Some([aware |-> TRUE, t |-> d.t])
      [] d.kind = "str_bad" -> None

StaleDays == 730

\* a call's outcome: a returned value or a raised exception
Return(v) == [out |-> "return", val |-> v]

Raise(e) == [out |-> "raise", val |-> e]

\* 5. incident date in the future or more than two years old; comparing an
\* offset-aware date with the naive utcnow() raises TypeError
DateFlags(c, t) ==
    IF c.incident_date = None THEN Return(<<>>)
    ELSE IF ParsedDate(Val(c.incident_date)) = None THEN Return(<<>>)
    ELSE IF Val(ParsedDate(Val(c.incident_date))).aware THEN Raise("TypeError")
    ELSE IF Val(ParsedDate(Val(c.incident_date))).t > t
         THEN Return(<<"Incident date is in the future">>)
    ELSE IF Val(ParsedDate(Val(c.incident_date))).t < t - StaleDays
         THEN Return(<<"Incident date is more than 2 years old">>)
    ELSE Return(<<>>)

\* 6. location with low confidence
LocationFlags(c) ==
    IF Truthy(c.incident_location) /\ LowConfidence(c.incident_location_provenance)
    THEN <<"Incident location provided but with very low confidence">> ELSE <<>>

Contradictions(c, t) ==
    LowConfidenceFlags(c) \o SeverityCostFlags(c) \o NoLogsFlags(c)
    \o HighCostFlags(c) \o DateFlags(c, t).val \o LocationFlags(c)

InSeq(x, s) == \E i \in 1..Len(s) : s[i] = x

MaxQuestions == 3

AllQuestions(c) ==
    LET missing == MissingEvidence(c)
    IN  (IF InSeq("system_logs", missing) THEN <<"ask system logs">> ELSE <<>>)
        \o (IF InSeq("incident_description", missing) THEN <<"ask what happened">> ELSE <<>>)
        \o (IF InSeq("incident_type", missing)
               \/ c.incident_type = unknown
               \/ LowConfidence(c.incident_type_provenance)
            THEN <<"ask incident type">> ELSE <<>>)
        \o (IF InSeq("asset_type", missing) THEN <<"ask asset type">> ELSE <<>>)
        \o (IF InSeq("incident_location", missing) THEN <<"ask location">> ELSE <<>>)
        \o (IF InSeq("incident_date", missing) THEN <<"ask date">> ELSE <<>>)
        \o (IF InSeq("estimated_liability_cost", missing) THEN <<"ask cost">> ELSE <<>>)
        \o (IF c.impact_severity = "unknown" THEN <<"ask severity">> ELSE <<>>)

\* the mutant: the last three questions are kept
RecommendedQuestions_last_three(c) ==
    SubSeq(AllQuestions(c),
           IF Len(AllQuestions(c)) < MaxQuestions THEN 1
           ELSE Len(AllQuestions(c)) - MaxQuestions + 1,
           Len(AllQuestions(c)))

RecommendedQuestions(c) ==
    SubSeq(AllQuestions(c), 1,
           IF Len(AllQuestions(c)) < MaxQuestions THEN Len(AllQuestions(c)) ELSE MaxQuestions)

check_claim(c, t) ==
    IF DateFlags(c, t).out = "raise" THEN DateFlags(c, t)
    ELSE Return([completeness_score |-> CompletenessScore(c),
                 missing_required_evidence |-> MissingEvidence(c),
                 contradictions |-> Contradictions(c, t),
                 recommended_questions |-> RecommendedQuestions(c)])


(***************************************************************************)
(* policy/service.py: helpers and PolicyService                            *)
(***************************************************************************)
\* str.split(): the words between runs of whitespace
RECURSIVE StrSplit(_)
StrSplit(s) ==
    LET t == LStripStr(s)
        k == IF \E i \in 1..Len(t) : IsSpace(t[i])
             THEN CHOOSE i \in 1..Len(t) :
                    IsSpace(t[i]) /\ \A j \in 1..(i - 1) : ~IsSpace(t[j])
             ELSE Len(t) + 1
    IN  IF t = <<>> THEN <<>>
        ELSE <<SubSeq(t, 1, k - 1)>> \o StrSplit(SubSeq(t, k, Len(t)))

\* " ".join(words)
RECURSIVE StrJoin(_)
StrJoin(ws) ==
    IF ws = <<>> THEN <<>>
    ELSE IF Len(ws) = 1 THEN ws[1]
    ELSE ws[1] \o <<" ">> \o StrJoin(Tail(ws))

\* a in b, for strings
StrIn(a, b) ==
    \E i \in 0..(Len(b) - Len(a)) : SubSeq(b, i + 1, i + Len(a)) = a

\* str.replace(x, y) for single characters
StrReplace(s, x, y) == [i \in 1..Len(s) |-> IF s[i] = x THEN y ELSE s[i]]

\* _normalize_name without .lower()
_normalize_name_no_lower(name) ==
    IF ~Truthy(name) THEN <<>>
    ELSE StrJoin(StrSplit(StrStrip(Val(name))))

_normalize_name(name) ==
    IF ~Truthy(name) THEN <<>>
    ELSE StrJoin(StrSplit(StrLower(StrStrip(Val(name)))))

_claim_incident_type(c) == c.incident_type

_claim_estimated_cost(c) == c.cost

_claim_evidence(c) ==
    [has_system_logs |-> c.has_system_logs,
     has_liability_assessment |-> c.has_liability_assessment,
     has_incident_report |-> c.has_incident_report]

verify_claimant_name(p, name) ==
    IF p.named_insured = <<>> THEN FALSE
    ELSE LET a == _normalize_name(Some(p.named_insured))
             b == _normalize_name(name)
         IN  IF b = <<>> THEN FALSE
             ELSE a = b \/ StrIn(b, a) \/ StrIn(a, b)

Min(x, y) == IF x < y THEN x ELSE y

Max(x, y) == IF x < y THEN y ELSE x

HasTypeLimit(p, t) ==
    p.per_incident_type_limits # None
    /\ DOMAIN Val(p.per_incident_type_limits) # {}
    /\ t \in DOMAIN Val(p.per_incident_type_limits)

\* compute_payout with the cap applied before the deductible
compute_payout_cap_first(c, p) ==
    LET incident_type == _claim_incident_type(c)
        cost == _claim_estimated_cost(c)
        cap == IF HasTypeLimit(p, incident_type)
               THEN Min(p.limit_amount, Val(p.per_incident_type_limits)[incident_type])
               ELSE p.limit_amount
    IN  IF incident_type \notin p.covered_incident_types THEN None
        ELSE IF cost = None \/ Val(cost) < 0 THEN None
        ELSE Some(Max(0, Min(Val(cost), cap) - p.deductible))

\* compute_payout with the per-type limit replacing limit_amount
compute_payout_type_limit_only(c, p) ==
    LET incident_type == _claim_incident_type(c)
        cost == _claim_estimated_cost(c)
        cap == IF HasTypeLimit(p, incident_type)
               THEN Val(p.per_incident_type_limits)[incident_type]
               ELSE p.limit_amount
    IN  IF incident_type \notin p.covered_incident_types THEN None
        ELSE IF cost = None \/ Val(cost) < 0 THEN None
        ELSE Some(Min(Max(0, Val(cost) - p.deductible), cap))

\* compute_payout with the deductible added to the cost
compute_payout_deductible_added(c, p) ==
    LET incident_type == _claim_incident_type(c)
        cost == _claim_estimated_cost(c)
        cap == IF HasTypeLimit(p, incident_type)
               THEN Min(p.limit_amount, Val(p.per_incident_type_limits)[incident_type])
               ELSE p.limit_amount
    IN  IF incident_type \notin p.covered_incident_types THEN None
        ELSE IF cost = None \/ Val(cost) < 0 THEN None
        ELSE Some(Min(Max(0, Val(cost) + p.deductible), cap))

compute_payout(c, p) ==
    LET incident_type == _claim_incident_type(c)
        cost == _claim_estimated_cost(c)
        cap == IF HasTypeLimit(p, incident_type)
               THEN Min(p.limit_amount, Val(p.per_incident_type_limits)[incident_type])
               ELSE p.limit_amount
    IN  IF incident_type \notin p.covered_incident_types THEN None
        ELSE IF cost = None \/ Val(cost) < 0 THEN None
        ELSE Some(Min(Max(0, Val(cost) - p.deductible), cap))

\* evidence keys
system_logs == <<"s", "y", "s", "t", "e", "m", "_", "l", "o", "g", "s">>

System_Logs == <<"S", "y", "s", "t", "e", "m", "_", "L", "o", "g", "s">>

incident_report ==
    <<"i", "n", "c", "i", "d", "e", "n", "t", "_", "r", "e", "p", "o", "r", "t">>

liability_assessment ==
    <<"l", "i", "a", "b", "i", "l", "i", "t", "y", "_",
      "a", "s", "s", "e", "s", "s", "m", "e", "n", "t">>

photos == <<"p", "h", "o", "t", "o", "s">>

\* _claim_estimated_cost(claim) or 0
CostOrZero(c) ==
    IF _claim_estimated_cost(c) = None \/ Val(_claim_estimated_cost(c)) = 0
    THEN 0 ELSE Val(_claim_estimated_cost(c))

\* A condition string is held by what the two searches find in it:
\*   kind "type_eq": contains "incident_type" and "==", and the regular
\*                   expression incident_type\s*==\s*(\w+) captures value;
\*   kind "cost_gt": contains "cost" and >\s*(\d+) captures the digits n;
\*   kind "cost":    contains "cost" but no '>' followed by digits;
\*   kind "other":   none of these.
\* RuleSkippedByCondition is TRUE when the loop takes `continue`.
\*
\* the loop with the cost rule skipped only below the threshold
RuleSkippedByCondition_below_threshold(rule, incident_type, cost) ==
    CASE rule.condition.kind = "type_eq" ->
            incident_type # StrLower(rule.condition.value)
      [] rule.condition.kind = "cost_gt" -> cost < rule.condition.n
      [] OTHER -> FALSE

RuleSkippedByCondition(rule, incident_type, cost) ==
    CASE rule.condition.kind = "type_eq" ->
            incident_type # StrLower(rule.condition.value)
      [] rule.condition.kind = "cost_gt" -> cost <= rule.condition.n
      [] OTHER -> FALSE

\* the evidence test turned round: a rule is skipped while its flag is unset
RuleEvidencePresent_when_absent(rule, evidence) ==
    LET req == StrLower(rule.required_evidence)
    IN  \/ req = system_logs /\ ~evidence.has_system_logs
        \/ req = incident_report /\ ~evidence.has_incident_report
        \/ req = liability_assessment /\ ~evidence.has_liability_assessment

RuleEvidencePresent(rule, evidence) ==
    LET req == StrLower(rule.required_evidence)
    IN  \/ req = system_logs /\ evidence.has_system_logs
        \/ req = incident_report /\ evidence.has_incident_report
        \/ req = liability_assessment /\ evidence.has_liability_assessment

RulePrompt(rule) ==
    IF Truthy(rule.question_hint) THEN Val(rule.question_hint)
    ELSE <<"Please provide ">> \o StrReplace(rule.required_evidence, "_", " ") \o <<".">>

RECURSIVE ExtraInfoFrom(_, _, _)
ExtraInfoFrom(c, rules, i) ==
    IF i > Len(rules) THEN <<>>
    ELSE (IF \/ ~rules[i].required
             \/ RuleSkippedByCondition(rules[i], _claim_incident_type(c), CostOrZero(c))
             \/ RuleEvidencePresent(rules[i], _claim_evidence(c))
          THEN <<>>
          ELSE <<RulePrompt(rules[i])>>)
         \o ExtraInfoFrom(c, rules, i + 1)

get_required_extra_info(c, p) == ExtraInfoFrom(c, p.extra_info_rules, 1)

\* CoverageResult(...): suggested_payout_cap is validated with ge=0
CoverageResult(is_covered, reason, required_evidence, suggested_payout_cap) ==
    IF suggested_payout_cap # None /\ Val(suggested_payout_cap) < 0
    THEN Raise("ValidationError")
    ELSE Return([is_covered |-> is_covered,
                 reason |-> reason,
                 required_evidence |-> required_evidence,
                 suggested_payout_cap |-> suggested_payout_cap])

check_coverage(c, p) ==
    IF _claim_incident_type(c) \notin p.covered_incident_types
    THEN CoverageResult(FALSE, "incident type is not in policy's covered types", <<>>, None)
    ELSE CoverageResult(TRUE, "incident type covered under policy",
                        get_required_extra_info(c, p), compute_payout(c, p))

\* can_auto_resolve with the amount gate closed at the maximum itself
can_auto_resolve_strict_amount(c, p, nv, ff) ==
    IF ff THEN FALSE
    ELSE IF p.resolution_rules.require_name_match /\ ~nv THEN FALSE
    ELSE IF p.resolution_rules.require_incident_type_covered
            /\ _claim_incident_type(c) \notin p.covered_incident_types THEN FALSE
    ELSE IF CostOrZero(c) >= p.resolution_rules.auto_resolve_max_amount THEN FALSE
    ELSE IF p.resolution_rules.require_evidence_complete
            /\ get_required_extra_info(c, p) # <<>> THEN FALSE
    ELSE TRUE

\* can_auto_resolve without the fraud veto
can_auto_resolve_no_fraud_veto(c, p, nv, ff) ==
    IF p.resolution_rules.require_name_match /\ ~nv THEN FALSE
    ELSE IF p.resolution_rules.require_incident_type_covered
            /\ _claim_incident_type(c) \notin p.covered_incident_types THEN FALSE
    ELSE IF CostOrZero(c) > p.resolution_rules.auto_resolve_max_amount THEN FALSE
    ELSE IF p.resolution_rules.require_evidence_complete
            /\ get_required_extra_info(c, p) # <<>> THEN FALSE
    ELSE TRUE

can_auto_resolve(c, p, nv, ff) ==
    IF ff THEN FALSE
    ELSE IF p.resolution_rules.require_name_match /\ ~nv THEN FALSE
    ELSE IF p.resolution_rules.require_incident_type_covered
            /\ _claim_incident_type(c) \notin p.covered_incident_types THEN FALSE
    ELSE IF CostOrZero(c) > p.resolution_rules.auto_resolve_max_amount THEN FALSE
    ELSE IF p.resolution_rules.require_evidence_complete
            /\ get_required_extra_info(c, p) # <<>> THEN FALSE
    ELSE TRUE


(***************************************************************************)
(* policy/store.py and PolicyService.get_policy.  A policies table is a    *)
(* function from the stored policy_number (the primary key) to the row;    *)
(* a lookup result is None or Some(policy).                                *)
(***************************************************************************)
IsDigit(c) == c \in {"0", "1", "2", "3", "4", "5", "6", "7", "8", "9"}

\* re.sub(r"\D", "", p)
DigitsOnly(s) == SelectSeq(s, IsDigit)

\* the Policy built from a row: every column is copied, and a NULL
\* per_incident_type_limits column stays None
_row_to_policy(row) ==
    [policy_number |-> row.policy_number,
     named_insured |-> row.named_insured,
     covered_incident_types |-> row.covered_incident_types,
     limit_amount |-> row.limit_amount,
     deductible |-> row.deductible,
     per_incident_type_limits |->
         IF row.per_incident_type_limits # None
         THEN row.per_incident_type_limits ELSE None,
     extra_info_rules |-> row.extra_info_rules,
     resolution_rules |-> row.resolution_rules]

\* SELECT * FROM policies WHERE policy_number = strip(n)
get_by_policy_number(tbl, n) ==
    IF ~Truthy(n) \/ StrStrip(Val(n)) = <<>> THEN None
    ELSE IF StrStrip(Val(n)) \in DOMAIN tbl
         THEN Some(_row_to_policy(tbl[StrStrip(Val(n))]))
    ELSE None

\* the mutant: the digits-only retry is made first
get_policy_digits_first(tbl, n) ==
    IF ~Truthy(n) THEN None
    ELSE LET p == StrStrip(Val(n))
             digits == DigitsOnly(p)
             byDigits == IF digits # <<>>
                         THEN get_by_policy_number(tbl, Some(digits)) ELSE None
         IN  IF byDigits # None THEN byDigits
             ELSE get_by_policy_number(tbl, Some(p))

get_policy(tbl, n) ==
    IF ~Truthy(n) THEN None
    ELSE LET p == StrStrip(Val(n))
             found == get_by_policy_number(tbl, Some(p))
             digits == DigitsOnly(p)
         IN  IF found # None THEN found
             ELSE IF digits # <<>>
                  THEN get_by_policy_number(tbl, Some(digits)) ELSE None

\* the row PolicyStore.save writes for a policy: every column is given,
\* and a per_incident_type_limits that is None or empty is stored as NULL
_policy_to_row(p) ==
    [policy_number |-> p.policy_number,
     named_insured |-> p.named_insured,
     covered_incident_types |-> p.covered_incident_types,
     limit_amount |-> p.limit_amount,
     deductible |-> p.deductible,
     per_incident_type_limits |->
         IF p.per_incident_type_limits # None
            /\ DOMAIN Val(p.per_incident_type_limits) # {}
         THEN p.per_incident_type_limits ELSE None,
     extra_info_rules |-> p.extra_info_rules,
     resolution_rules |-> p.resolution_rules]

\* INSERT OR REPLACE INTO policies: the row under the policy's number is
\* replaced as a whole
save(tbl, p) ==
    [n \in DOMAIN tbl \cup {p.policy_number} |->
        IF n = p.policy_number THEN _policy_to_row(p) ELSE tbl[n]]

\* every policy of the JSON file is saved, in the file's order
RECURSIVE load_from_json(_, _)
load_from_json(tbl, items) ==
    IF items = <<>> THEN tbl
    ELSE load_from_json(save(tbl, Head(items)), Tail(items))

\* PolicyStore(): the table is created if it is missing, and the seed file
\* is loaded whenever it exists (seed is None when it does not)
PolicyStore_init(tbl, seed) ==
    IF seed # None THEN load_from_json(tbl, Val(seed)) ELSE tbl

\* PolicyService(store=store): self.store = store or PolicyStore()
PolicyService(store) == [store |-> IF store # None THEN Val(store) ELSE "default"]

(***************************************************************************)
(* policy/llm_coverage.py: check_coverage_with_llm, one step per action.   *)
(* llm.pc is the position in the function; llm.client says whether the     *)
(* caller passed a client; llm.reply is the model's reply once received.   *)
(***************************************************************************)
NoReply == [body |-> "none", is_covered |-> FALSE, cap |-> "null", evidence |-> "list"]

LLMIdle == [pc |-> "idle", client |-> "none", reply |-> NoReply, error |-> "none"]

\* replies of the external model: the message content is a JSON object
\* (possibly inside a markdown fence), some other JSON value, or text that
\* json.loads rejects; an object's suggested_payout_cap is null, a number
\* or a string that float() rejects, its required_evidence a list or null
Replies ==
    [body : {"object", "fenced_object", "array", "garbage", "no_content"},
     is_covered : BOOLEAN,
     cap : {"null", "negative", "number", "text"},
     evidence : {"list", "null"}]

FailureResult(e) ==
    CoverageResult(FALSE, <<"Coverage check failed: ", e>>, <<>>, None)

\* what the try block does with a reply
LLMResultOf(reply) ==
    IF reply.body = "no_content" THEN Raise("AttributeError")
    ELSE IF reply.body = "garbage" THEN Raise("JSONDecodeError")
    ELSE IF reply.body = "array" THEN Raise("AttributeError")
    ELSE IF reply.evidence = "null" THEN Raise("TypeError")
    ELSE IF reply.cap = "text" THEN Raise("ValueError")
    ELSE CoverageResult(reply.is_covered, <<"reason">>, <<system_logs>>,
                        CASE reply.cap = "null" -> None
                          [] reply.cap = "negative" -> Some(0 - 1)
                          [] reply.cap = "number" -> Some(1))


(***************************************************************************)
(* Inputs.                                                                 *)
(***************************************************************************)
MaxLogs == 2

MaxCost == 4

MaxLimit == 3

MaxDeductible == 2

MaxRules == 2

MaxNameLen == 3

BaseClaim ==
    [incident_type |-> delay,
     incident_type_provenance |-> None,
     incident_description |-> Some(<<"x">>),
     incident_description_provenance |-> None,
     incident_location |-> Some(<<"H">>),
     incident_location_provenance |-> None,
     incident_date |-> Some([kind |-> "naive", t |-> 1000]),
     asset_type |-> "shipment",
     asset_type_provenance |-> None,
     impact_severity |-> "moderate",
     cost |-> Some(3),
     system_component |-> None,
     has_system_logs |-> TRUE,
     system_log_count |-> 1,
     has_incident_report |-> FALSE,
     has_liability_assessment |-> FALSE]

DefaultResolutionRules ==
    [auto_resolve_max_amount |-> 2,
     require_name_match |-> TRUE,
     require_evidence_complete |-> TRUE,
     require_incident_type_covered |-> TRUE]

BasePolicy ==
    [named_insured |-> <<"A">>,
     covered_incident_types |-> {delay},
     limit_amount |-> MaxLimit,
     deductible |-> 1,
     per_incident_type_limits |-> None,
     extra_info_rules |-> <<>>,
     resolution_rules |-> DefaultResolutionRules]

\* claims that differ in the ten tier items
TierClaims ==
    {[BaseClaim EXCEPT !.has_system_logs = logs, !.system_log_count = n,
                       !.incident_description = d, !.incident_type = ty,
                       !.asset_type = a, !.incident_location = loc,
                       !.cost = c, !.incident_date = dt,
                       !.has_liability_assessment = la, !.system_component = sc] :
        logs \in BOOLEAN, n \in 0..MaxLogs,
        d \in {Some(<<>>), Some(<<" ">>), Some(<<"x">>)},
        ty \in {delay, unknown}, a \in {"shipment", "unknown"},
        loc \in {None, Some(<<" ">>), Some(<<"H">>)},
        c \in {None, Some(0), Some(3000)},
        dt \in {None, Some([kind |-> "naive", t |-> 1000])},
        la \in BOOLEAN, sc \in {None, Some(<<"r">>)}}

Costs == {None} \cup {Some(c) : c \in (0 - 1)..MaxCost}

\* per_incident_type_limits: absent, empty, or a cap for 'delay' that may
\* be negative (the schema puts no bound on it) or above limit_amount
TypeLimits ==
    {None, Some(<<>>)}
    \cup {Some([t \in {delay} |-> v]) : v \in (0 - 1)..(MaxLimit + 1)}

PayoutPolicies ==
    {[BasePolicy EXCEPT !.covered_incident_types = cov, !.limit_amount = lim,
                        !.deductible = ded, !.per_incident_type_limits = ptl] :
        cov \in {{}, {delay}, {delay, loss}},
        lim \in 0..MaxLimit, ded \in 0..MaxDeductible, ptl \in TypeLimits}

PayoutClaims ==
    {[BaseClaim EXCEPT !.incident_type = ty, !.cost = c] :
        ty \in {delay, loss, unknown}, c \in Costs}

Condition(kind, value, n) == [kind |-> kind, value |-> value, n |-> n]

Rule(cond, ev, hint, req) ==
    [condition |-> cond, required_evidence |-> ev, question_hint |-> hint, required |-> req]

\* rules over the conditions 'incident_type == prediction_failure',
\* 'incident_type == Delay', 'cost > 1', 'cost >= 1' (no '>' followed by
\* digits) and 'always'
Rules ==
    {Rule(Condition("type_eq", prediction_failure, 0), liability_assessment, None, TRUE),
     Rule(Condition("type_eq", Delay, 0), system_logs, Some(<<"Upload the logs">>), TRUE),
     Rule(Condition("type_eq", prediction_failure, 0), incident_report, Some(<<>>), TRUE),
     Rule(Condition("cost_gt", <<>>, 1), System_Logs, None, TRUE),
     Rule(Condition("cost_gt", <<>>, 1), incident_report, Some(<<"Send the report">>), TRUE),
     Rule(Condition("cost", <<>>, 1), liability_assessment, Some(<<"Assessment?">>), TRUE),
     Rule(Condition("other", <<>>, 0), photos, None, TRUE),
     Rule(Condition("other", <<>>, 0), system_logs, None, FALSE),
     Rule(Condition("type_eq", Delay, 0), incident_report, Some(<<"Any report?">>), FALSE)}

RECURSIVE SeqsUpTo(_, _)
SeqsUpTo(S, n) ==
    IF n = 0 THEN {<<>>}
    ELSE SeqsUpTo(S, n - 1)
         \cup {Append(q, x) : q \in {r \in SeqsUpTo(S, n - 1) : Len(r) = n - 1}, x \in S}

RuleClaims ==
    {[BaseClaim EXCEPT !.incident_type = ty, !.cost = c, !.has_system_logs = logs,
                       !.has_incident_report = rep, !.has_liability_assessment = la] :
        ty \in {delay, Delay, prediction_failure, Prediction_Failure},
        c \in {None, Some(1), Some(2)},
        logs \in BOOLEAN, rep \in BOOLEAN, la \in BOOLEAN}

RulePolicies ==
    {[BasePolicy EXCEPT !.extra_info_rules = rs, !.covered_incident_types = cov] :
        rs \in SeqsUpTo(Rules, MaxRules), cov \in {{delay, prediction_failure}}}

ResolvePolicies ==
    {[BasePolicy EXCEPT !.extra_info_rules = rs, !.covered_incident_types = cov,
                        !.resolution_rules = rr] :
        rs \in {<<>>,
                <<Rule(Condition("cost_gt", <<>>, 1), incident_report, None, TRUE)>>,
                <<Rule(Condition("other", <<>>, 0), system_logs, None, TRUE)>>},
        cov \in {{}, {delay}},
        rr \in [auto_resolve_max_amount : {0, MaxCost - 1},
                require_name_match : BOOLEAN,
                require_evidence_complete : BOOLEAN,
                require_incident_type_covered : BOOLEAN]}

ResolveClaims ==
    {[BaseClaim EXCEPT !.cost = c, !.has_system_logs = logs, !.has_incident_report = rep] :
        c \in {None, Some(0 - 1), Some(0), Some(MaxCost - 1), Some(MaxCost)},
        logs \in BOOLEAN, rep \in BOOLEAN}

NameChars == {"A", "a", " "}

Names == SeqsUpTo(NameChars, MaxNameLen)

Acme_Corp == <<"A", "c", "m", "e", " ", "C", "o", "r", "p">>

acme_corp == <<"a", "c", "m", "e", " ", "c", "o", "r", "p">>

acme_corp_spaced == <<" ", "a", "C", "m", "e", " ", " ", "c", "o", "r", "p", " ">>

Acme == <<"A", "c", "m", "e">>

\* the PolicyStore databases: the default path and one given by a caller
Stores == {"default", "A"}

MaxDays == 2

\* incident dates, in days: around two years before the first evaluation
\* (day 1000) and around the days of the evaluations
DateDays == {269, 270, 271, 1000, 1001, 1002}

DateKinds == {"naive", "aware", "str", "str_offset", "str_bad"}

\* claims that differ in the date and in the other optional fields
DateClaims ==
    {[BaseClaim EXCEPT !.incident_date = dt, !.cost = c, !.incident_location = loc,
                       !.incident_type_provenance = pr] :
        dt \in {None} \cup {Some([kind |-> k, t |-> t]) : k \in DateKinds, t \in DateDays},
        c \in {None, Some(3)}, loc \in {None, Some(<<"H">>)},
        pr \in {None, Some(29)}}

\* claims that differ in what the follow-up questions depend on
QuestionClaims ==
    {[BaseClaim EXCEPT !.has_system_logs = logs, !.incident_description = d,
                       !.incident_type = ty, !.incident_type_provenance = pr,
                       !.asset_type = a, !.incident_location = loc,
                       !.incident_date = dt, !.cost = c, !.impact_severity = sev] :
        logs \in BOOLEAN, d \in {Some(<<>>), Some(<<"x">>)},
        ty \in {delay, unknown}, pr \in {None, Some(29), Some(30)},
        a \in {"shipment", "unknown"}, loc \in {None, Some(<<"H">>)},
        dt \in {None, Some([kind |-> "naive", t |-> 1000])},
        c \in {None, Some(3)}, sev \in {"unknown", "moderate"}}

\* claims that differ in severity and cost, around the three thresholds
SeverityClaims ==
    {[BaseClaim EXCEPT !.impact_severity = sev, !.cost = c, !.incident_date = dt,
                       !.has_liability_assessment = la, !.has_system_logs = logs] :
        sev \in {"minor", "moderate", "severe", "critical", "unknown"},
        c \in {None} \cup {Some(v) : v \in {0, 999, 1000, 1001, 2000, 4999, 5000,
                                            5001, 50000, 50001}},
        dt \in {None, Some([kind |-> "naive", t |-> 1000]),
                Some([kind |-> "aware", t |-> 1000])},
        la \in BOOLEAN, logs \in BOOLEAN}

\* the end-to-end fixture: delay, shipment, cost 3000, one system log, a
\* description, severity moderate, a location, the date of the evaluation
\* and no liability assessment; the fields it leaves open vary
FixtureClaims ==
    {[BaseClaim EXCEPT !.incident_type = delay, !.asset_type = "shipment",
                       !.cost = Some(3000), !.has_system_logs = TRUE,
                       !.system_log_count = 1, !.incident_description = Some(<<"x">>),
                       !.impact_severity = "moderate", !.incident_location = Some(<<"H">>),
                       !.incident_date = Some([kind |-> k, t |-> 1000]),
                       !.has_liability_assessment = FALSE,
                       !.system_component = sc, !.has_incident_report = rep,
                       !.incident_type_provenance = p1, !.asset_type_provenance = p2,
                       !.incident_description_provenance = p3,
                       !.incident_location_provenance = p4] :
        k \in {"naive", "str"}, sc \in {None, Some(<<"r">>)}, rep \in BOOLEAN,
        p1 \in {None, Some(29), Some(30)}, p2 \in {None, Some(29)},
        p3 \in {None, Some(29)}, p4 \in {None, Some(29)}}

MaxIdLen == 3

\* a stored row: the policy saved under policy number n
Row(n) ==
    [policy_number |-> n,
     named_insured |-> <<"A">> \o n,
     covered_incident_types |-> BasePolicy.covered_incident_types,
     limit_amount |-> BasePolicy.limit_amount,
     deductible |-> BasePolicy.deductible,
     per_incident_type_limits |-> BasePolicy.per_incident_type_limits,
     extra_info_rules |-> BasePolicy.extra_info_rules,
     resolution_rules |-> BasePolicy.resolution_rules]

\* the policy numbers a table may hold: '', '1', '12', 'P1', 'P12' and ' 1'
StoredNumbers ==
    {<<>>, <<"1">>, <<"1", "2">>, <<"P", "1">>, <<"P", "1", "2">>, <<" ", "1">>}

Tables == {[n \in K |-> Row(n)] : K \in SUBSET StoredNumbers}

\* the identifiers a caller may give
IdChars == {"P", "1", "2", " "}

Ids == {None} \cup {Some(n) : n \in SeqsUpTo(IdChars, MaxIdLen)}

\* claims and policies for calls of every function of the engine
EngineClaims ==
    {[BaseClaim EXCEPT !.incident_type = ty, !.cost = c, !.incident_date = dt,
                       !.has_system_logs = logs] :
        ty \in {delay, Delay, unknown}, c \in {None, Some(0 - 1), Some(3)},
        dt \in {None, Some([kind |-> "naive", t |-> 1000]),
                Some([kind |-> "aware", t |-> 1000])},
        logs \in BOOLEAN}

EnginePolicies ==
    {[BasePolicy EXCEPT !.extra_info_rules = rs, !.per_incident_type_limits = ptl] :
        rs \in {<<>>, <<Rule(Condition("type_eq", Delay, 0), system_logs, None, TRUE)>>},
        ptl \in {None, Some([t \in {delay} |-> 0 - 1])}}

MaxCallers == 2

(***************************************************************************)
(* The condition text of an ExtraInfoRule, read as get_required_extra_info *)
(* reads it: lower-cased, tested for the substrings, then searched with    *)
(* the two regular expressions (leftmost match, greedy groups).            *)
(***************************************************************************)
Digits == <<"0", "1", "2", "3", "4", "5", "6", "7", "8", "9">>

DigitValue(c) == CHOOSE d \in 0..9 : Digits[d + 1] = c

\* int(m.group(1))
RECURSIVE DecimalValue(_)
DecimalValue(ds) ==
    IF ds = <<>> THEN 0
    ELSE 10 * DecimalValue(SubSeq(ds, 1, Len(ds) - 1)) + DigitValue(ds[Len(ds)])

\* \w
IsWordChar(c) ==
    c \in {"a", "b", "c", "d", "e", "f", "g", "h", "i", "j", "k", "l", "m",
           "n", "o", "p", "q", "r", "s", "t", "u", "v", "w", "x", "y", "z",
           "_"} \/ IsDigit(c)

\* the first position from i on that does not satisfy P (Len(s) + 1 if none)
SpanEnd(s, i, P(_)) ==
    CHOOSE j \in i..(Len(s) + 1) :
        /\ j = Len(s) + 1 \/ ~P(s[j])
        /\ \A k \in i..(j - 1) : P(s[k])

StartsAt(sub, s, i) ==
    /\ i + Len(sub) - 1 <= Len(s)
    /\ SubSeq(s, i, i + Len(sub) - 1) = sub

incident_type_key ==
    <<"i", "n", "c", "i", "d", "e", "n", "t", "_", "t", "y", "p", "e">>

cost_key == <<"c", "o", "s", "t">>

Cost_key == <<"C", "o", "s", "t">>

estimated_liability_cost_key ==
    <<"e", "s", "t", "i", "m", "a", "t", "e", "d", "_",
      "l", "i", "a", "b", "i", "l", "i", "t", "y", "_", "c", "o", "s", "t">>

\* where re.search(r"incident_type\s*==\s*(\w+)", cond) can match
TypeMatches(cond) ==
    {i \in 1..Len(cond) :
        /\ StartsAt(incident_type_key, cond, i)
        /\ LET j == SpanEnd(cond, i + Len(incident_type_key), IsSpace)
           IN  /\ StartsAt(<<"=", "=">>, cond, j)
               /\ LET k == SpanEnd(cond, j + 2, IsSpace)
                  IN  k <= Len(cond) /\ IsWordChar(cond[k])}

\* where re.search(r">\s*(\d+)", cond) can match
CostMatches(cond) ==
    {i \in 1..Len(cond) :
        /\ cond[i] = ">"
        /\ LET k == SpanEnd(cond, i + 1, IsSpace)
           IN  k <= Len(cond) /\ IsDigit(cond[k])}

\* cond = rule.condition.lower() and the branch the loop takes on it; the
\* text itself is kept beside what the searches find in it
ParseCondition(text) ==
    LET cond == StrLower(text)
        Least(S) == CHOOSE i \in S : \A j \in S : i <= j
        found ==
            IF StrIn(incident_type_key, cond) /\ StrIn(<<"=", "=">>, cond)
            THEN IF TypeMatches(cond) = {} THEN Condition("other", <<>>, 0)
                 ELSE LET i == Least(TypeMatches(cond))
                          j == SpanEnd(cond, i + Len(incident_type_key), IsSpace)
                          k == SpanEnd(cond, j + 2, IsSpace)
                      IN  Condition("type_eq",
                                    SubSeq(cond, k, SpanEnd(cond, k, IsWordChar) - 1), 0)
            ELSE IF StrIn(estimated_liability_cost_key, cond) \/ StrIn(cost_key, cond)
            THEN IF CostMatches(cond) = {} THEN Condition("cost", <<>>, 0)
                 ELSE LET i == Least(CostMatches(cond))
                          k == SpanEnd(cond, i + 1, IsSpace)
                      IN  Condition("cost_gt", <<>>,
                                    DecimalValue(SubSeq(cond, k,
                                                        SpanEnd(cond, k, IsDigit) - 1)))
            ELSE Condition("other", <<>>, 0)
    IN  [kind |-> found.kind, value |-> found.value, n |-> found.n, text |-> text]

\* str(n)
RECURSIVE DecimalDigits(_)
DecimalDigits(n) ==
    IF n < 10 THEN <<Digits[n + 1]>>
    ELSE DecimalDigits(n \div 10) \o <<Digits[(n % 10) + 1]>>

\* the text '<key> >N' with some spaces between '>' and N
CostText(key, spaces, n) == key \o <<" ", ">">> \o spaces \o DecimalDigits(n)

\* N up to MaxCost and the two-digit N = 2 * MaxCost + 2
Thresholds == 0..MaxCost \cup {2 * MaxCost + 2}

CostTexts ==
    {CostText(key, spaces, n) :
        key \in {cost_key, Cost_key, estimated_liability_cost_key},
        spaces \in {<<>>, <<" ">>, <<" ", " ">>},
        n \in Thresholds}

\* a rule that applies to every claim and whose evidence has no flag
AlwaysPhotos == Rule(Condition("other", <<>>, 0), photos, None, TRUE)

CostRules ==
    {Rule(ParseCondition(text), ev, hint, req) :
        text \in CostTexts, ev \in {system_logs, incident_report},
        hint \in {None, Some(<<"Send the report">>)}, req \in BOOLEAN}

CostRulePolicies ==
    {[BasePolicy EXCEPT !.extra_info_rules = rs] :
        rs \in {<<r>> : r \in CostRules} \cup {<<AlwaysPhotos, r>> : r \in CostRules}}

CostRuleClaims ==
    {[BaseClaim EXCEPT !.cost = c, !.has_system_logs = logs, !.has_incident_report = rep] :
        c \in Costs \cup {Some(2 * MaxCost + 2), Some(2 * MaxCost + 3)},
        logs \in BOOLEAN, rep \in BOOLEAN}

\* provenance records with confidence 0, 0.29, 0.3 and 1, or none; a
\* location that is absent, empty, blank or given
ConfidenceClaims ==
    {[BaseClaim EXCEPT !.incident_type_provenance = pt, !.asset_type_provenance = pa,
                       !.incident_description_provenance = pd,
                       !.incident_location_provenance = pl,
                       !.incident_location = loc, !.incident_description = desc] :
        pt \in {None, Some(0), Some(29), Some(30), Some(100)},
        pa \in {None, Some(0), Some(29), Some(30), Some(100)},
        pd \in {None, Some(0), Some(29), Some(30), Some(100)},
        pl \in {None, Some(0), Some(29), Some(30), Some(100)},
        loc \in {None, Some(<<>>), Some(<<" ">>), Some(<<"H">>)},
        desc \in {None, Some(<<"x">>)}}

\* the policy saved under policy number n with a limit and per-type limits
StorePolicy(n, lim, ptl) ==
    [_row_to_policy(Row(n)) EXCEPT !.limit_amount = lim, !.per_incident_type_limits = ptl]

StorePolicies ==
    {StorePolicy(n, lim, ptl) :
        n \in {<<"1">>, <<"2">>}, lim \in 1..MaxLimit,
        ptl \in {None, Some(<<>>), Some([t \in {delay} |-> 1])}}

\* the seed file data/policies/ai_logistics_policies.json: not there, or
\* an array with the policy '1'
SeedFiles == {None, Some(<<StorePolicy(<<"1">>, MaxLimit, None)>>)}

\* policies and claims for the amount gate and the payout of one claim
GatePolicies ==
    {[BasePolicy EXCEPT !.covered_incident_types = cov, !.limit_amount = lim,
                        !.deductible = ded, !.per_incident_type_limits = ptl,
                        !.extra_info_rules = rs, !.resolution_rules = rr] :
        cov \in {{}, {delay}}, lim \in {1, MaxLimit}, ded \in 0..MaxDeductible,
        ptl \in {None, Some([t \in {delay} |-> 1])},
        rs \in {<<>>, <<Rule(Condition("other", <<>>, 0), system_logs, None, TRUE)>>},
        rr \in [auto_resolve_max_amount : {0, 2, MaxCost},
                require_name_match : BOOLEAN,
                require_evidence_complete : BOOLEAN,
                require_incident_type_covered : BOOLEAN]}

GateClaims ==
    {[BaseClaim EXCEPT !.cost = c, !.has_system_logs = logs] :
        c \in Costs, logs \in BOOLEAN}

\* claims that no evidence has arrived for yet
NoEvidenceClaims ==
    {[BaseClaim EXCEPT !.incident_type = ty, !.cost = c, !.has_system_logs = FALSE,
                       !.has_incident_report = FALSE, !.has_liability_assessment = FALSE] :
        ty \in {delay, Delay, prediction_failure}, c \in {None, Some(1), Some(2)}}

\* the callers of get_policy_service: each passes a store or None, and
\* then prices its own claim against the policy '1' of its service's store
CallerStart(store) == [pc |-> "call", store |-> store, svc |-> None, result |-> None]

CallerClaim(i) == [BaseClaim EXCEPT !.cost = Some(MaxCost + 1 - i)]

\* the two databases hold different records under policy number '1'
SingletonDb ==
    [s \in Stores |->
        [n \in {<<"1">>} |->
            [Row(n) EXCEPT !.limit_amount = IF s = "default" THEN 1 ELSE MaxLimit]]]

Idle ==
    /\ op = "none"
    /\ ret = Return(<<>>)
    /\ stage = "intake"
    /\ llm = LLMIdle
    /\ now = 1000
    /\ db = [s \in Stores |-> <<>>]
    /\ policy_number = None
    /\ _policy_service = None
    /\ callers = <<>>

InitChecker ==
    /\ claim \in TierClaims
    /\ policy = BasePolicy
    /\ claimant_name = None
    /\ name_verified = TRUE
    /\ fraud_flagged = FALSE
    /\ Idle

InitPayout ==
    /\ claim \in PayoutClaims
    /\ policy \in PayoutPolicies
    /\ claimant_name = None
    /\ name_verified = TRUE
    /\ fraud_flagged = FALSE
    /\ Idle

InitRules ==
    /\ claim \in RuleClaims
    /\ policy \in RulePolicies
    /\ claimant_name = None
    /\ name_verified = TRUE
    /\ fraud_flagged = FALSE
    /\ Idle

InitCostRules ==
    /\ claim \in CostRuleClaims
    /\ policy \in CostRulePolicies
    /\ claimant_name = None
    /\ name_verified = TRUE
    /\ fraud_flagged = FALSE
    /\ Idle

InitResolve ==
    /\ claim \in ResolveClaims
    /\ policy \in ResolvePolicies
    /\ claimant_name = None
    /\ name_verified \in BOOLEAN
    /\ fraud_flagged \in BOOLEAN
    /\ Idle

InitNames ==
    /\ claim = BaseClaim
    /\ policy \in {[BasePolicy EXCEPT !.named_insured = n] : n \in Names \cup {Acme_Corp}}
    /\ claimant_name \in {None} \cup {Some(n) : n \in Names \cup {acme_corp, acme_corp_spaced, Acme}}
    /\ name_verified = FALSE
    /\ fraud_flagged = FALSE
    /\ Idle

(***************************************************************************)
(* Calls of the pure functions: each leaves the claim and policy alone.    *)
(***************************************************************************)
\* the mutant: the call writes the lower-cased incident type into the claim
Call_lowercasing_claim(name, outcome) ==
    /\ op = "none"
    /\ stage = "intake"
    /\ op' = name
    /\ ret' = outcome
    /\ claim' = [claim EXCEPT !.incident_type = StrLower(claim.incident_type)]
    /\ UNCHANGED <<policy, claimant_name, name_verified, fraud_flagged,
                   now, stage, llm>>
    /\ UNCHANGED StoreVars

Call(name, outcome) ==
    /\ op = "none"
    /\ stage = "intake"
    /\ op' = name
    /\ ret' = outcome
    /\ UNCHANGED <<claim, policy, claimant_name, name_verified, fraud_flagged,
                   now, stage, llm>>
    /\ UNCHANGED StoreVars

CallCheckClaim == Call("check_claim", check_claim(claim, now))

CallVerifyClaimantName ==
    Call("verify_claimant_name", Return(verify_claimant_name(policy, claimant_name)))

CallComputePayout == Call("compute_payout", Return(compute_payout(claim, policy)))

CallGetRequiredExtraInfo ==
    Call("get_required_extra_info", Return(get_required_extra_info(claim, policy)))

CallCheckCoverage == Call("check_coverage", check_coverage(claim, policy))

CallCanAutoResolve ==
    Call("can_auto_resolve",
         Return(can_auto_resolve(claim, policy, name_verified, fraud_flagged)))

NextChecker == CallCheckClaim

NextNames == CallVerifyClaimantName

NextPolicy ==
    \/ CallComputePayout
    \/ CallGetRequiredExtraInfo
    \/ CallCheckCoverage
    \/ CallCanAutoResolve

(***************************************************************************)
(* check_coverage_with_llm, step by step.                                  *)
(***************************************************************************)
LLMStep(next, outcome) ==
    /\ llm' = next
    /\ ret' = outcome
    /\ UNCHANGED <<claim, policy, claimant_name, name_verified, fraud_flagged,
                   now, op, stage>>
    /\ UNCHANGED StoreVars

\* the call: the caller passes a client or leaves it None
LLMStart ==
    /\ op = "none"
    /\ llm.pc = "idle"
    /\ op' = "check_coverage_with_llm"
    /\ \E cl \in {"given", "none"} : llm' = [llm EXCEPT !.pc = "client", !.client = cl]
    /\ UNCHANGED <<claim, policy, claimant_name, name_verified, fraud_flagged,
                   now, ret, stage>>
    /\ UNCHANGED StoreVars

\* client = client or OpenAI(): outside the try block, so an OpenAI() that
\* cannot be constructed (no API key) raises to the caller
LLMClient ==
    /\ llm.pc = "client"
    /\ \/ /\ llm.client = "given"
          /\ LLMStep([llm EXCEPT !.pc = "request"], ret)
       \/ /\ llm.client = "none"
          /\ \/ LLMStep([llm EXCEPT !.pc = "request", !.client = "constructed"], ret)
             \/ LLMStep([llm EXCEPT !.pc = "done", !.error = "OpenAIError"],
                        Raise("OpenAIError"))

\* client.chat.completions.create(...): a reply, or an exception (API error,
\* connection error, timeout) raised inside the try block
LLMRequest ==
    /\ llm.pc = "request"
    /\ \/ \E r \in Replies : LLMStep([llm EXCEPT !.pc = "parse", !.reply = r], ret)
       \/ \E e \in {"APIError", "APITimeoutError"} :
             LLMStep([llm EXCEPT !.pc = "except", !.error = e], ret)

\* strip the fence, json.loads, build the CoverageResult
LLMParse ==
    /\ llm.pc = "parse"
    /\ IF LLMResultOf(llm.reply).out = "return"
       THEN LLMStep([llm EXCEPT !.pc = "done"], LLMResultOf(llm.reply))
       ELSE LLMStep([llm EXCEPT !.pc = "except", !.error = LLMResultOf(llm.reply).val], ret)

\* except Exception as e: log and return the failure result
LLMExcept ==
    /\ llm.pc = "except"
    /\ LLMStep([llm EXCEPT !.pc = "done"], FailureResult(llm.error))

NextLLM == LLMStart \/ LLMClient \/ LLMRequest \/ LLMParse \/ LLMExcept

InitLLM ==
    /\ claim \in {[BaseClaim EXCEPT !.incident_type = ty] : ty \in {delay, loss}}
    /\ policy = BasePolicy
    /\ claimant_name = None
    /\ name_verified = TRUE
    /\ fraud_flagged = FALSE
    /\ Idle

SpecLLM == InitLLM /\ [][NextLLM]_vars

SpecChecker == InitChecker /\ [][NextChecker]_vars

SpecPayout == InitPayout /\ [][NextPolicy]_vars

SpecRules == InitRules /\ [][NextPolicy]_vars

NextCostRules == CallGetRequiredExtraInfo

SpecCostRules == InitCostRules /\ [][NextCostRules]_vars

SpecResolve == InitResolve /\ [][NextPolicy]_vars

SpecNames == InitNames /\ [][NextNames]_vars

InitQuestions ==
    /\ claim \in QuestionClaims
    /\ policy = BasePolicy
    /\ claimant_name = None
    /\ name_verified = TRUE
    /\ fraud_flagged = FALSE
    /\ Idle

SpecQuestions == InitQuestions /\ [][NextChecker]_vars

(***************************************************************************)
(* Every function of the checker and of the coverage engine, called on one *)
(* claim and one policy.                                                   *)
(***************************************************************************)
InitEngine ==
    /\ claim \in EngineClaims
    /\ policy \in EnginePolicies
    /\ claimant_name \in {None, Some(<<"a">>)}
    /\ name_verified = TRUE
    /\ fraud_flagged = FALSE
    /\ Idle

NextEngine == CallCheckClaim \/ CallVerifyClaimantName \/ NextPolicy

SpecEngine == InitEngine /\ [][NextEngine]_vars

(***************************************************************************)
(* get_policy_service, one step per read or write of the module global,    *)
(* for callers that run concurrently.                                      *)
(***************************************************************************)
CallerStep(i, next) ==
    /\ callers' = [callers EXCEPT ![i] = next]
    /\ UNCHANGED <<claim, policy, claimant_name, name_verified, fraud_flagged,
                   now, op, ret, stage, llm, db, policy_number>>

\* if _policy_service is None:
GetServiceTest ==
    \E i \in DOMAIN callers :
        /\ callers[i].pc = "call"
        /\ CallerStep(i, [callers[i] EXCEPT
                             !.pc = IF _policy_service = None THEN "construct" ELSE "return"])
        /\ UNCHANGED _policy_service

\* _policy_service = PolicyService(store=store)
GetServiceConstruct ==
    \E i \in DOMAIN callers :
        /\ callers[i].pc = "construct"
        /\ _policy_service' = Some(PolicyService(callers[i].store))
        /\ CallerStep(i, [callers[i] EXCEPT !.pc = "return"])

\* return _policy_service
GetServiceReturn ==
    \E i \in DOMAIN callers :
        /\ callers[i].pc = "return"
        /\ CallerStep(i, [callers[i] EXCEPT !.pc = "use", !.svc = _policy_service])
        /\ UNCHANGED _policy_service

\* what a caller gets from a service: the payout of its claim under the
\* policy '1' of the service's store
PayoutFrom(service, i) ==
    LET found == get_policy(db[service.store], Some(<<"1">>))
    IN  IF found = None THEN None ELSE compute_payout(CallerClaim(i), Val(found))

\* policy = service.get_policy('1'); service.compute_payout(claim, policy)
UseService ==
    \E i \in DOMAIN callers :
        /\ callers[i].pc = "use"
        /\ CallerStep(i, [callers[i] EXCEPT
                             !.pc = "done", !.result = PayoutFrom(Val(callers[i].svc), i)])
        /\ UNCHANGED _policy_service

NextSingleton == GetServiceTest \/ GetServiceConstruct \/ GetServiceReturn \/ UseService

InitSingleton ==
    /\ claim = BaseClaim
    /\ policy = BasePolicy
    /\ claimant_name = None
    /\ name_verified = TRUE
    /\ fraud_flagged = FALSE
    /\ op = "none"
    /\ ret = Return(<<>>)
    /\ stage = "intake"
    /\ llm = LLMIdle
    /\ now = 1000
    /\ db = SingletonDb
    /\ policy_number = Some(<<"1">>)
    /\ _policy_service = None
    /\ callers \in [1..MaxCallers -> {CallerStart(st) : st \in {None, Some("A")}}]

SpecSingleton == InitSingleton /\ [][NextSingleton]_vars

(***************************************************************************)
(* The caller of the gate: can_auto_resolve, then compute_payout for the   *)
(* same claim and policy.                                                  *)
(***************************************************************************)
InitGate ==
    /\ claim \in GateClaims
    /\ policy \in GatePolicies
    /\ claimant_name = None
    /\ name_verified \in BOOLEAN
    /\ fraud_flagged \in BOOLEAN
    /\ Idle

\* compute_payout(claim, policy) once can_auto_resolve has answered
CallComputePayoutAfterGate ==
    /\ op = "can_auto_resolve"
    /\ op' = "compute_payout"
    /\ ret' = Return(compute_payout(claim, policy))
    /\ UNCHANGED <<claim, policy, claimant_name, name_verified, fraud_flagged,
                   now, stage, llm>>
    /\ UNCHANGED StoreVars

NextGate == CallCanAutoResolve \/ CallComputePayoutAfterGate

SpecGate == InitGate /\ [][NextGate]_vars

(***************************************************************************)
(* policy/store.py: stores constructed on one database, policies saved     *)
(* and looked up.  op is "none" until the first store is constructed.      *)
(***************************************************************************)
InitStore ==
    /\ claim = BaseClaim
    /\ policy = BasePolicy
    /\ claimant_name = None
    /\ name_verified = TRUE
    /\ fraud_flagged = FALSE
    /\ op = "none"
    /\ ret = Return(<<>>)
    /\ stage = "intake"
    /\ llm = LLMIdle
    /\ now = 1000
    /\ db = [s \in Stores |-> <<>>]
    /\ policy_number = None
    /\ _policy_service = None
    /\ callers = <<>>

\* store = PolicyStore()
ConstructPolicyStore ==
    \E seed \in SeedFiles :
        /\ db' = [db EXCEPT !["default"] = PolicyStore_init(@, seed)]
        /\ op' = "PolicyStore"
        /\ ret' = Return(<<>>)
        /\ UNCHANGED <<claim, policy, claimant_name, name_verified, fraud_flagged,
                       now, stage, llm, policy_number, _policy_service, callers>>

\* store.save(p)
CallSave ==
    \E p \in StorePolicies :
        /\ op # "none"
        /\ db' = [db EXCEPT !["default"] = save(@, p)]
        /\ policy' = p
        /\ op' = "save"
        /\ ret' = Return(<<>>)
        /\ UNCHANGED <<claim, claimant_name, name_verified, fraud_flagged,
                       now, stage, llm, policy_number, _policy_service, callers>>

\* store.get_by_policy_number(n)
CallGetByPolicyNumber ==
    \E n \in {Some(<<"1">>), Some(<<"2">>), Some(<<" ", "1">>), Some(<<>>), None} :
        /\ op # "none"
        /\ policy_number' = n
        /\ op' = "get_by_policy_number"
        /\ ret' = Return(get_by_policy_number(db["default"], n))
        /\ UNCHANGED <<claim, policy, claimant_name, name_verified, fraud_flagged,
                       now, stage, llm, db, _policy_service, callers>>

NextStore == ConstructPolicyStore \/ CallSave \/ CallGetByPolicyNumber

SpecStore == InitStore /\ [][NextStore]_vars

(***************************************************************************)
(* PolicyService.get_policy on a service over the default store.           *)
(***************************************************************************)
InitLookup ==
    /\ claim = BaseClaim
    /\ policy = BasePolicy
    /\ claimant_name = None
    /\ name_verified = TRUE
    /\ fraud_flagged = FALSE
    /\ op = "none"
    /\ ret = Return(<<>>)
    /\ stage = "intake"
    /\ llm = LLMIdle
    /\ now = 1000
    /\ \E tbl \in Tables : db = [s \in Stores |-> IF s = "default" THEN tbl ELSE <<>>]
    /\ policy_number \in Ids
    /\ _policy_service = Some(PolicyService(None))
    /\ callers = <<>>

CallGetPolicy ==
    /\ op = "none"
    /\ _policy_service # None
    /\ op' = "get_policy"
    /\ ret' = Return(get_policy(db[Val(_policy_service).store], policy_number))
    /\ UNCHANGED <<claim, policy, claimant_name, name_verified, fraud_flagged,
                   now, stage, llm>>
    /\ UNCHANGED StoreVars

NextLookup == CallGetPolicy

SpecLookup == InitLookup /\ [][NextLookup]_vars

InitConfidence ==
    /\ claim \in ConfidenceClaims
    /\ policy = BasePolicy
    /\ claimant_name = None
    /\ name_verified = TRUE
    /\ fraud_flagged = FALSE
    /\ Idle

SpecConfidence == InitConfidence /\ [][NextChecker]_vars

InitSeverity ==
    /\ claim \in SeverityClaims
    /\ policy = BasePolicy
    /\ claimant_name = None
    /\ name_verified = TRUE
    /\ fraud_flagged = FALSE
    /\ Idle

SpecSeverity == InitSeverity /\ [][NextChecker]_vars

InitFixture ==
    /\ claim \in FixtureClaims
    /\ policy = BasePolicy
    /\ claimant_name = None
    /\ name_verified = TRUE
    /\ fraud_flagged = FALSE
    /\ Idle

SpecFixture == InitFixture /\ [][NextChecker]_vars

(***************************************************************************)
(* check_claim evaluated more than once on one claim record: the clock     *)
(* read by datetime.utcnow() moves on between the evaluations.             *)
(***************************************************************************)
InitDates ==
    /\ claim \in DateClaims
    /\ policy = BasePolicy
    /\ claimant_name = None
    /\ name_verified = TRUE
    /\ fraud_flagged = FALSE
    /\ Idle

\* time passes after the first evaluation, made on day 1000
ClockAdvances ==
    /\ op = "check_claim"
    /\ now < 1000 + MaxDays
    /\ now' = now + 1
    /\ UNCHANGED <<claim, policy, claimant_name, name_verified, fraud_flagged,
                   op, ret, stage, llm>>
    /\ UNCHANGED StoreVars

\* a later evaluation of the same claim record
CallCheckClaimAgain ==
    /\ op = "check_claim"
    /\ stage = "intake"
    /\ ret' = check_claim(claim, now)
    /\ UNCHANGED <<claim, policy, claimant_name, name_verified, fraud_flagged,
                   now, op, stage, llm>>
    /\ UNCHANGED StoreVars

NextDates == CallCheckClaim \/ ClockAdvances \/ CallCheckClaimAgain

SpecDates == InitDates /\ [][NextDates]_vars



(***************************************************************************)
(* Per-claim lifecycle: intake -> (evaluation, repeated as evidence        *)
(* arrives) -> auto_resolved | routed_to_human_review.  The caller that    *)
(* drives it is outside the engine; the engine supplies the gate.          *)
(***************************************************************************)
EvidenceFlags == {"has_system_logs", "has_incident_report", "has_liability_assessment"}

\* a piece of evidence arrives; earlier evaluations no longer count
EvidenceArrives ==
    /\ stage = "intake"
    /\ \E f \in EvidenceFlags :
          /\ ~claim[f]
          /\ claim' = [claim EXCEPT ![f] = TRUE]
    /\ op' = "none"
    /\ ret' = Return(<<>>)
    /\ UNCHANGED <<policy, claimant_name, name_verified, fraud_flagged, now, stage, llm>>
    /\ UNCHANGED StoreVars

\* the fraud flag is raised; it is never lowered
FraudFlagRaised ==
    /\ stage = "intake"
    /\ ~fraud_flagged
    /\ fraud_flagged' = TRUE
    /\ op' = "none"
    /\ ret' = Return(<<>>)
    /\ UNCHANGED <<claim, policy, claimant_name, name_verified, now, stage, llm>>
    /\ UNCHANGED StoreVars

\* the claimant's name is checked against the policy
NameChecked ==
    /\ stage = "intake"
    /\ claimant_name # None
    /\ name_verified' = verify_claimant_name(policy, claimant_name)
    /\ name_verified' # name_verified
    /\ op' = "none"
    /\ ret' = Return(<<>>)
    /\ UNCHANGED <<claim, policy, claimant_name, fraud_flagged, now, stage, llm>>
    /\ UNCHANGED StoreVars

AutoResolve ==
    /\ stage = "intake"
    /\ op = "can_auto_resolve"
    /\ ret.val
    /\ stage' = "auto_resolved"
    /\ UNCHANGED <<claim, policy, claimant_name, name_verified, fraud_flagged,
                   now, op, ret, llm>>
    /\ UNCHANGED StoreVars

RouteToHumanReview ==
    /\ stage = "intake"
    /\ op = "can_auto_resolve"
    /\ ~ret.val
    /\ stage' = "routed_to_human_review"
    /\ UNCHANGED <<claim, policy, claimant_name, name_verified, fraud_flagged,
                   now, op, ret, llm>>
    /\ UNCHANGED StoreVars

LifecyclePolicies ==
    {[BasePolicy EXCEPT !.extra_info_rules = rs, !.resolution_rules = rr] :
        rs \in {<<>>,
                <<Rule(Condition("cost_gt", <<>>, 1), incident_report, None, TRUE)>>,
                <<Rule(Condition("type_eq", Delay, 0), system_logs, None, TRUE),
                  Rule(Condition("other", <<>>, 0), liability_assessment, None, TRUE)>>},
        rr \in [auto_resolve_max_amount : {MaxCost - 1},
                require_name_match : BOOLEAN,
                require_evidence_complete : BOOLEAN,
                require_incident_type_covered : {TRUE}]}

LifecycleClaims ==
    {[BaseClaim EXCEPT !.cost = c, !.has_system_logs = logs, !.incident_type = ty] :
        c \in {Some(2), Some(MaxCost)}, logs \in BOOLEAN, ty \in {delay, loss}}

InitLifecycle ==
    /\ claim \in LifecycleClaims
    /\ policy \in LifecyclePolicies
    /\ claimant_name \in {Some(<<"a">>), Some(<<"b">>)}
    /\ name_verified = FALSE
    /\ fraud_flagged = FALSE
    /\ Idle

NextLifecycle ==
    \/ EvidenceArrives
    \/ FraudFlagRaised
    \/ NameChecked
    \/ CallCanAutoResolve
    \/ AutoResolve
    \/ RouteToHumanReview

SpecLifecycle == InitLifecycle /\ [][NextLifecycle]_vars


(***************************************************************************)
(* get_required_extra_info evaluated again as evidence arrives for a       *)
(* claim: ret keeps the list of the last evaluation.                       *)
(***************************************************************************)
InitEvidence ==
    /\ claim \in NoEvidenceClaims
    /\ policy \in RulePolicies
    /\ claimant_name = None
    /\ name_verified = TRUE
    /\ fraud_flagged = FALSE
    /\ Idle

\* one of the three evidence flags turns from false to true
EvidenceFlagSet ==
    /\ op = "get_required_extra_info"
    /\ \E flag \in EvidenceFlags :
          /\ ~claim[flag]
          /\ claim' = [claim EXCEPT ![flag] = TRUE]
    /\ UNCHANGED <<policy, claimant_name, name_verified, fraud_flagged,
                   now, op, ret, stage, llm>>
    /\ UNCHANGED StoreVars

\* a later evaluation of the claim
CallGetRequiredExtraInfoAgain ==
    /\ op = "get_required_extra_info"
    /\ ret' = Return(get_required_extra_info(claim, policy))
    /\ UNCHANGED <<claim, policy, claimant_name, name_verified, fraud_flagged,
                   now, op, stage, llm>>
    /\ UNCHANGED StoreVars

NextEvidence ==
    CallGetRequiredExtraInfo \/ EvidenceFlagSet \/ CallGetRequiredExtraInfoAgain

SpecEvidence == InitEvidence /\ [][NextEvidence]_vars


(***************************************************************************)
(* Properties.                                                             *)
(***************************************************************************)
Satisfied(items) == Len(TierPresent(claim, items))

Checked == op = "check_claim" /\ ret.out = "return"

\* C1: check_claim's completeness_score is (n1/4)*0.6 + (n2/3)*0.3 +
\* (n3/3)*0.1 for the numbers n1, n2, n3 of satisfied Tier 1, 2 and 3 items,
\* lies in [0,1], and is exactly 0.6 with all of Tier 1 and nothing else,
\* exactly 0.9 with all of Tier 1 and Tier 2 and nothing of Tier 3, and
\* exactly 1.0 with all ten items.
C1_ScoreExact ==
    Checked =>
        /\ ret.val.completeness_score =
              FAdd(FAdd(FMul(FDivInt(Satisfied(Tier1Items), 4), FDivInt(6, 10)),
                        FMul(FDivInt(Satisfied(Tier2Items), 3), FDivInt(3, 10))),
                   FMul(FDivInt(Satisfied(Tier3Items), 3), FDivInt(1, 10)))
        /\ FLeq(Zero, ret.val.completeness_score)
        /\ FLeq(ret.val.completeness_score, FDivInt(1, 1))
        /\ (Satisfied(Tier1Items) = 4 /\ Satisfied(Tier2Items) = 0 /\ Satisfied(Tier3Items) = 0
              => ret.val.completeness_score = FDivInt(6, 10))
        /\ (Satisfied(Tier1Items) = 4 /\ Satisfied(Tier2Items) = 3 /\ Satisfied(Tier3Items) = 0
              => ret.val.completeness_score = FDivInt(9, 10))
        /\ (Satisfied(Tier1Items) = 4 /\ Satisfied(Tier2Items) = 3 /\ Satisfied(Tier3Items) = 3
              => ret.val.completeness_score = FDivInt(1, 1))

TypeLimitDefined ==
    /\ policy.per_incident_type_limits # None
    /\ claim.incident_type \in DOMAIN Val(policy.per_incident_type_limits)

ApplicableCap ==
    IF TypeLimitDefined
    THEN Min(policy.limit_amount, Val(policy.per_incident_type_limits)[claim.incident_type])
    ELSE policy.limit_amount

C3_AutoResolveGates ==
    op = "can_auto_resolve" =>
        /\ ret.val =
              (/\ ~fraud_flagged
               /\ (~policy.resolution_rules.require_name_match \/ name_verified)
               /\ (~policy.resolution_rules.require_incident_type_covered
                      \/ claim.incident_type \in policy.covered_incident_types)
               /\ (IF claim.cost = None THEN 0 ELSE Val(claim.cost))
                      <= policy.resolution_rules.auto_resolve_max_amount
               /\ (~policy.resolution_rules.require_evidence_complete
                      \/ get_required_extra_info(claim, policy) = <<>>))
        /\ (fraud_flagged => ~ret.val)

\* auto-resolve granted at the amount limit with every gate enabled
C3_Witness ==
    /\ op = "can_auto_resolve"
    /\ ret.val
    /\ policy.resolution_rules.require_name_match
    /\ policy.resolution_rules.require_incident_type_covered
    /\ policy.resolution_rules.require_evidence_complete
    /\ policy.extra_info_rules # <<>>
    /\ claim.cost = Some(policy.resolution_rules.auto_resolve_max_amount)

\* C4: auto_resolved is entered only from a state where can_auto_resolve
\* holds for the current claim, policy, name_verified and fraud_flagged, and
\* a fraud-flagged claim is never auto_resolved.
C4_AutoResolvedOnlyThroughGate ==
    /\ [][stage # "auto_resolved" /\ stage' = "auto_resolved"
            => can_auto_resolve(claim, policy, name_verified, fraud_flagged)]_vars
    /\ [](fraud_flagged => stage # "auto_resolved")

\* a claim auto-resolved after its missing evidence arrived
C4_Witness ==
    /\ stage = "auto_resolved"
    /\ policy.resolution_rules.require_evidence_complete
    /\ policy.extra_info_rules # <<>>
    /\ claim.has_incident_report

\* C5: compute_payout is non-decreasing in the cost, non-increasing in the
\* deductible, never above limit_amount and never above the per-type limit
\* defined for the claim's type.
C5_PayoutMonotoneAndCapped ==
    op = "compute_payout" /\ ret.val # None =>
        /\ \A c2 \in Val(claim.cost)..MaxCost :
              /\ compute_payout([claim EXCEPT !.cost = Some(c2)], policy) # None
              /\ Val(compute_payout([claim EXCEPT !.cost = Some(c2)], policy)) >= Val(ret.val)
        /\ \A d2 \in policy.deductible..MaxDeductible :
              /\ compute_payout(claim, [policy EXCEPT !.deductible = d2]) # None
              /\ Val(compute_payout(claim, [policy EXCEPT !.deductible = d2])) <= Val(ret.val)
        /\ Val(ret.val) <= policy.limit_amount
        /\ (TypeLimitDefined =>
              Val(ret.val) <= Val(policy.per_incident_type_limits)[claim.incident_type])

\* a payout held at limit_amount under a larger per-type limit
C5_Witness ==
    /\ op = "compute_payout"
    /\ TypeLimitDefined
    /\ Val(policy.per_incident_type_limits)[claim.incident_type] > policy.limit_amount
    /\ ret.val = Some(policy.limit_amount)
    /\ policy.limit_amount > 0


\* a rule's condition as the policy states it: the incident type compared
\* without regard to case, the cost (0 when absent) strictly above N
ConditionSatisfied(rule) ==
    CASE rule.condition.kind = "type_eq" ->
            StrLower(claim.incident_type) = StrLower(rule.condition.value)
      [] rule.condition.kind = "cost_gt" ->
            (IF claim.cost = None THEN 0 ELSE Val(claim.cost)) > rule.condition.n
      [] OTHER -> TRUE

EvidenceFlagged(rule) ==
    \/ StrLower(rule.required_evidence) = system_logs /\ claim.has_system_logs
    \/ StrLower(rule.required_evidence) = incident_report /\ claim.has_incident_report
    \/ StrLower(rule.required_evidence) = liability_assessment
          /\ claim.has_liability_assessment

ExpectedPrompt(rule) ==
    IF rule.question_hint # None /\ Val(rule.question_hint) # <<>>
    THEN Val(rule.question_hint)
    ELSE <<"Please provide ">>
         \o [i \in 1..Len(rule.required_evidence) |->
                IF rule.required_evidence[i] = "_" THEN " " ELSE rule.required_evidence[i]]
         \o <<".">>

ExpectedRules ==
    SelectSeq(policy.extra_info_rules,
              LAMBDA r : r.required /\ ConditionSatisfied(r) /\ ~EvidenceFlagged(r))

\* C6: get_required_extra_info returns, in rule order, exactly one prompt
\* for each required rule whose condition the claim satisfies and whose
\* evidence is not flagged present: the question_hint when set, otherwise
\* the generated 'Please provide <evidence>.'.
C6_ExtraInfoByRule ==
    op = "get_required_extra_info" =>
        ret.val = [i \in 1..Len(ExpectedRules) |-> ExpectedPrompt(ExpectedRules[i])]

\* C7: a required rule 'incident_type == V' contributes a prompt exactly for
\* the claims whose incident_type equals V without regard to case on either
\* side (and whose evidence is missing): with V = prediction_failure and
\* liability_assessment, one prompt for a prediction_failure claim without
\* an assessment, none for a delay claim.
C7_TypeConditionCaseInsensitive ==
    /\ op = "get_required_extra_info"
    /\ Len(policy.extra_info_rules) = 1
    /\ policy.extra_info_rules[1].required
    /\ policy.extra_info_rules[1].condition.kind = "type_eq"
    => /\ Len(ret.val) =
            (IF /\ StrLower(claim.incident_type)
                     = StrLower(policy.extra_info_rules[1].condition.value)
                /\ ~EvidenceFlagged(policy.extra_info_rules[1])
             THEN 1 ELSE 0)
       /\ (/\ policy.extra_info_rules[1].condition.value = prediction_failure
           /\ policy.extra_info_rules[1].required_evidence = liability_assessment
           /\ StrLower(claim.incident_type) = delay
           => ret.val = <<>>)

\* C8: check_coverage returns is_covered = false with no evidence and no cap
\* exactly when the incident type is not covered, and otherwise is_covered =
\* true with the payout of compute_payout and the prompts of
\* get_required_extra_info.
C8_CoverageResult ==
    op = "check_coverage" =>
        /\ ret.out = "return"
        /\ IF claim.incident_type \notin policy.covered_incident_types
           THEN /\ ~ret.val.is_covered
                /\ ret.val.required_evidence = <<>>
                /\ ret.val.suggested_payout_cap = None
           ELSE /\ ret.val.is_covered
                /\ ret.val.suggested_payout_cap = compute_payout(claim, policy)
                /\ ret.val.required_evidence = get_required_extra_info(claim, policy)

\* normalisation as the contract words it: lowercase, no whitespace at
\* either end, one space for each run of whitespace inside
RECURSIVE Collapsed(_)
Collapsed(s) ==
    IF s = <<>> THEN <<>>
    ELSE IF s[1] = " " /\ (Len(s) = 1 \/ s[2] = " ") THEN Collapsed(Tail(s))
    ELSE <<s[1]>> \o Collapsed(Tail(s))

RECURSIVE WithoutLeadingSpace(_)
WithoutLeadingSpace(s) ==
    IF s # <<>> /\ s[1] = " " THEN WithoutLeadingSpace(Tail(s)) ELSE s

Normalised(s) == Collapsed(WithoutLeadingSpace([i \in 1..Len(s) |-> LowerChar(s[i])]))

ContainedIn(a, b) ==
    \E i \in 0..Len(b), j \in 0..Len(b) : i <= j /\ SubSeq(b, i + 1, j) = a

NamesMatch ==
    /\ claimant_name # None
    /\ Normalised(Val(claimant_name)) # <<>>
    /\ \/ Normalised(Val(claimant_name)) = Normalised(policy.named_insured)
       \/ ContainedIn(Normalised(Val(claimant_name)), Normalised(policy.named_insured))
       \/ ContainedIn(Normalised(policy.named_insured), Normalised(Val(claimant_name)))

\* C9 as first stated: verify_claimant_name is true exactly when the
\* normalised claimant name is non-empty and equals, contains or is
\* contained in the normalised named_insured.
C9_NameMatchAnyInsured ==
    op = "verify_claimant_name" => ret.val = NamesMatch

\* C9: verify_claimant_name is true exactly when named_insured is not the
\* empty string, the normalised claimant name is non-empty, and the two
\* normalised names are equal or one contains the other; 'Acme Corp' matches
\* 'acme corp' and 'Acme', and an empty or blank claimant name never matches.
C9_NameMatch ==
    op = "verify_claimant_name" =>
        /\ ret.val = (policy.named_insured # <<>> /\ NamesMatch)
        /\ (policy.named_insured = Acme_Corp
              /\ claimant_name \in {Some(acme_corp), Some(acme_corp_spaced), Some(Acme)}
              => ret.val)
        /\ (claimant_name \in {None, Some(<<>>), Some(<<" ">>), Some(<<" ", " ">>)}
              => ~ret.val)

\* 'Acme Corp' verified for a claimant entered as ' aCme  corp '
C9_Witness ==
    /\ op = "verify_claimant_name"
    /\ policy.named_insured = Acme_Corp
    /\ claimant_name = Some(acme_corp_spaced)
    /\ ret.val

\* C10: check_coverage_with_llm never raises: on a client that cannot be
\* constructed, a failed or timed-out call, or a reply that is not valid
\* JSON or fails validation, it returns is_covered = false with the failure
\* in reason, no evidence and no cap.
C10_NeverRaises ==
    llm.pc = "done" =>
        /\ ret.out = "return"
        /\ (llm.error # "none" =>
              /\ ~ret.val.is_covered
              /\ ret.val.reason = <<"Coverage check failed: ", llm.error>>
              /\ ret.val.required_evidence = <<>>
              /\ ret.val.suggested_payout_cap = None)

\* C11: check_claim is total: for every claim record (absent cost, location,
\* date and provenance, a date string that cannot be parsed, a timezone-aware
\* or timezone-naive date) it returns a CheckReport and never ends in an
\* error.
C11_CheckClaimTotal ==
    op = "check_claim" => ret.out = "return"

\* C13: check_claim is deterministic: two evaluations of the same claim
\* record, at any two points of its lifecycle, return the same
\* completeness_score, missing_required_evidence, contradictions and
\* recommended_questions.
C13_Deterministic ==
    [][(/\ op = "check_claim" /\ op' = "check_claim"
        /\ claim' = claim
        /\ ret.out = "return" /\ ret'.out = "return")
       => ret'.val = ret.val]_vars

\* C12: compute_payout, get_required_extra_info, check_coverage and
\* can_auto_resolve return a result and never fail, for every claim and
\* policy (negative cost, unknown incident type, any per-incident-type
\* limit); the suggested_payout_cap of a CoverageResult that check_coverage
\* returns is absent or >= 0.
C12_RuleFunctionsTotal ==
    op \in {"compute_payout", "get_required_extra_info", "check_coverage",
            "can_auto_resolve"} =>
        /\ ret.out = "return"
        /\ (op = "check_coverage" =>
               \/ ret.val.suggested_payout_cap = None
               \/ Val(ret.val.suggested_payout_cap) >= 0)

CanonicalItems ==
    <<"system_logs", "incident_description", "incident_type", "asset_type",
      "incident_location", "estimated_liability_cost", "incident_date",
      "liability_assessment", "system_component", "multiple_logs">>

\* C14: missing_required_evidence holds exactly the unsatisfied tier items,
\* each at most once, in the fixed order of CanonicalItems; it is empty if
\* and only if completeness_score is 1.0; a cost of zero is never listed as
\* missing.
C14_MissingEvidence ==
    Checked =>
        LET missing == ret.val.missing_required_evidence
        IN  /\ missing = SelectSeq(CanonicalItems, LAMBDA it : ~ItemPresent(claim, it))
            /\ \A i, j \in 1..Len(missing) : missing[i] = missing[j] => i = j
            /\ (missing = <<>>) <=> (ret.val.completeness_score = FDivInt(1, 1))
            /\ (claim.cost = Some(0) => ~InSeq("estimated_liability_cost", missing))

QuestionOrder ==
    <<"ask system logs", "ask what happened", "ask incident type", "ask asset type",
      "ask location", "ask date", "ask cost", "ask severity">>

Blank(s) == s = None \/ StrStrip(Val(s)) = <<>>

\* the trigger of each question, read off the claim record
TriggerHolds(q) ==
    CASE q = "ask system logs" -> ~(claim.has_system_logs /\ claim.system_log_count >= 1)
      [] q = "ask what happened" -> Blank(claim.incident_description)
      [] q = "ask incident type" ->
            \/ claim.incident_type = unknown
            \/ /\ claim.incident_type_provenance # None
               /\ FLess(FDivInt(Val(claim.incident_type_provenance), 100), FDivInt(3, 10))
      [] q = "ask asset type" -> claim.asset_type = "unknown"
      [] q = "ask location" -> Blank(claim.incident_location)
      [] q = "ask date" -> claim.incident_date = None
      [] q = "ask cost" -> claim.cost = None
      [] q = "ask severity" -> claim.impact_severity = "unknown"

TriggeredQuestions == SelectSeq(QuestionOrder, TriggerHolds)

SeverityCostMessages ==
    {"Severity marked as CRITICAL but estimated cost is low",
     "Severity marked as SEVERE but estimated cost is low",
     "Severity marked as MINOR but estimated cost is high"}

\* the severity/cost contradictions of a returned report
SeverityCostReported ==
    SelectSeq(ret.val.contradictions, LAMBDA m : m \in SeverityCostMessages)

\* the message the contract expects for the claim, if any
SeverityCostExpected ==
    IF claim.cost = None THEN <<>>
    ELSE IF claim.impact_severity = "critical" /\ Val(claim.cost) < 5000
         THEN <<"Severity marked as CRITICAL but estimated cost is low">>
    ELSE IF claim.impact_severity = "severe" /\ Val(claim.cost) < 1000
         THEN <<"Severity marked as SEVERE but estimated cost is low">>
    ELSE IF claim.impact_severity = "minor" /\ Val(claim.cost) > 50000
         THEN <<"Severity marked as MINOR but estimated cost is high">>
    ELSE <<>>

\* C16: a severity/cost contradiction is reported exactly for critical with
\* cost < 5000, severe with cost < 1000 and minor with cost > 50000; at most
\* one per claim, none when cost is absent or severity is moderate or
\* unknown, none at 5000, 1000 and 50000; and for severity critical with
\* cost 2000 exactly one is reported whatever the other fields are.
C16_SeverityCost ==
    op = "check_claim" =>
        /\ Checked => /\ SeverityCostReported = SeverityCostExpected
                      /\ Len(SeverityCostReported) <= 1
        /\ (claim.impact_severity = "critical" /\ claim.cost = Some(2000)
              => ret.out = "return" /\ Len(SeverityCostReported) = 1)

\* C17 as first stated: the fixture scores 1.0 and has no severity/cost
\* contradiction.
C17_FixtureScoresOne ==
    op = "check_claim" =>
        /\ ret.out = "return"
        /\ ret.val.completeness_score = FDivInt(1, 1)
        /\ SeverityCostReported = <<>>

\* C17: for the fixture check_claim returns a report whose
\* completeness_score is below 1.0, with liability_assessment and
\* multiple_logs listed as missing, and no severity/cost contradiction.
C17_Fixture ==
    op = "check_claim" =>
        /\ ret.out = "return"
        /\ FLess(ret.val.completeness_score, FDivInt(1, 1))
        /\ InSeq("liability_assessment", ret.val.missing_required_evidence)
        /\ InSeq("multiple_logs", ret.val.missing_required_evidence)
        /\ SeverityCostReported = <<>>

C17_Witness ==
    /\ Checked
    /\ claim.cost = Some(3000) /\ claim.impact_severity = "moderate"
    /\ claim.system_component # None
    /\ claim.incident_date = Some([kind |-> "naive", t |-> now])
    /\ ret.val.missing_required_evidence = <<"liability_assessment", "multiple_logs">>

\* the table the lookup reads, the identifier without the whitespace at its
\* ends, and the identifier's digits
LookupTable == db[Val(_policy_service).store]

Reverse(s) == [i \in 1..Len(s) |-> s[Len(s) + 1 - i]]

TrimmedId == WithoutLeadingSpace(Reverse(WithoutLeadingSpace(Reverse(Val(policy_number)))))

IdDigits == SelectSeq(TrimmedId, LAMBDA c : c \in {"0", "1", "2", "3", "4", "5", "6", "7", "8", "9"})

StoredUnder(n) == Some(LookupTable[n])

\* C18 as first stated: get_policy(id) returns the policy stored under the
\* trimmed id when one exists; otherwise the policy stored under the id's
\* digits, when there are digits and such a policy exists; otherwise None,
\* without raising; it never returns any other policy.
C18_GetPolicyAnyId ==
    op = "get_policy" =>
        /\ ret.out = "return"
        /\ ret.val = IF policy_number = None THEN None
                     ELSE IF TrimmedId \in DOMAIN LookupTable THEN StoredUnder(TrimmedId)
                     ELSE IF IdDigits # <<>> /\ IdDigits \in DOMAIN LookupTable
                          THEN StoredUnder(IdDigits)
                     ELSE None

\* C18: get_policy(id) returns the policy stored under the trimmed id when
\* that id is not empty and such a policy exists; otherwise the policy
\* stored under the id's digits, when there are digits and such a policy
\* exists; otherwise None, without raising; it never returns any other
\* policy.
C18_GetPolicy ==
    op = "get_policy" =>
        /\ ret.out = "return"
        /\ ret.val = IF policy_number = None THEN None
                     ELSE IF TrimmedId # <<>> /\ TrimmedId \in DOMAIN LookupTable
                          THEN StoredUnder(TrimmedId)
                     ELSE IF IdDigits # <<>> /\ IdDigits \in DOMAIN LookupTable
                          THEN StoredUnder(IdDigits)
                     ELSE None
        /\ (ret.val # None => Val(ret.val).policy_number \in {TrimmedId, IdDigits})

\* 'P12' is not stored but '12' is: the digits-only retry finds it
C18_Witness ==
    /\ op = "get_policy"
    /\ policy_number = Some(<<"P", "1", "2">>)
    /\ <<"P", "1", "2">> \notin DOMAIN LookupTable
    /\ ret.val # None
    /\ Val(ret.val).policy_number = <<"1", "2">>

EngineFunctions ==
    {"check_claim", "verify_claimant_name", "compute_payout",
     "get_required_extra_info", "check_coverage", "can_auto_resolve"}

C20_NoSharedState ==
    \A i \in DOMAIN callers :
        callers[i].pc = "done" =>
            /\ Val(callers[i].svc).store = PolicyService(callers[i].store).store
            /\ callers[i].result = PayoutFrom(PolicyService(callers[i].store), i)

\* the rule under test: the last rule of the policy
LastRule == policy.extra_info_rules[Len(policy.extra_info_rules)]

\* the N of a condition text '<key> > N'
ThresholdOf(text) ==
    CHOOSE n \in Thresholds :
        \E key \in {cost_key, Cost_key, estimated_liability_cost_key},
           spaces \in {<<>>, <<" ">>, <<" ", " ">>} : text = CostText(key, spaces, n)

\* the last rule has put its prompt at the end of the returned list
LastRuleContributes ==
    /\ Len(ret.val) = Len(policy.extra_info_rules)
    /\ ret.val[Len(ret.val)] = ExpectedPrompt(LastRule)

\* C21: a required rule whose condition is 'cost > N' or
\* 'estimated_liability_cost > N' contributes a prompt exactly when the
\* claim's cost, taken as 0 when absent, is strictly greater than N and the
\* rule's evidence is absent; with the cost equal to N, or no cost, it
\* contributes none.
C21_CostRule ==
    op = "get_required_extra_info" /\ LastRule.required =>
        LET N == ThresholdOf(LastRule.condition.text)
            cost == IF claim.cost = None THEN 0 ELSE Val(claim.cost)
        IN  /\ LastRuleContributes <=> (cost > N /\ ~EvidenceFlagged(LastRule))
            /\ cost = N \/ claim.cost = None => ~LastRuleContributes

\* a two-digit threshold is passed by one: the prompt follows the other rule's
C21_Witness ==
    /\ op = "get_required_extra_info"
    /\ LastRule.required
    /\ Len(policy.extra_info_rules) = 2
    /\ LastRule.condition.text = CostText(Cost_key, <<>>, 2 * MaxCost + 2)
    /\ claim.cost = Some(2 * MaxCost + 3)
    /\ LastRuleContributes


\* how many times a message is in a list
Count(x, s) == Cardinality({i \in 1..Len(s) : s[i] = x})

\* a provenance record is there and its confidence is strictly below 0.3
StrictlyBelowThreshold(p) == p # None /\ Val(p) < 30

LowConfidenceExpected(message, p, present) ==
    Count(message, ret.val.contradictions)
        = IF StrictlyBelowThreshold(p) /\ present THEN 1 ELSE 0

\* C22: check_claim raises a low-confidence contradiction for a field only
\* when the field's provenance confidence is strictly below 0.3: one message
\* each for incident_type, asset_type and incident_description, and one for
\* incident_location only when a location is given; a confidence of exactly
\* 0.3, or no provenance record, raises none.
C22_LowConfidence ==
    Checked =>
        /\ LowConfidenceExpected("Low confidence on incident type classification",
                                 claim.incident_type_provenance, TRUE)
        /\ LowConfidenceExpected("Low confidence on asset type classification",
                                 claim.asset_type_provenance, TRUE)
        /\ LowConfidenceExpected("Low confidence on incident description extraction",
                                 claim.incident_description_provenance, TRUE)
        /\ LowConfidenceExpected("Incident location provided but with very low confidence",
                                 claim.incident_location_provenance,
                                 claim.incident_location \notin {None, Some(<<>>)})

\* one field at 0.29 is reported beside one at exactly 0.3 that is not
C22_Witness ==
    /\ Checked
    /\ claim.incident_type_provenance = Some(29)
    /\ claim.asset_type_provenance = Some(30)
    /\ claim.incident_location_provenance = Some(0)
    /\ claim.incident_location = Some(<<"H">>)
    /\ InSeq("Low confidence on incident type classification", ret.val.contradictions)
    /\ InSeq("Incident location provided but with very low confidence",
             ret.val.contradictions)
    /\ ~InSeq("Low confidence on asset type classification", ret.val.contradictions)


\* the report carries the date contradiction the claim's date calls for at
\* the evaluation time, and no other
DateContradictionExpected ==
    LET d == claim.incident_date
        future == Count("Incident date is in the future", ret.val.contradictions)
        stale == Count("Incident date is more than 2 years old", ret.val.contradictions)
    IN  /\ ret.out = "return"
        /\ IF d = None \/ Val(d).kind = "str_bad" THEN future = 0 /\ stale = 0
           ELSE IF Val(d).t > now THEN future = 1 /\ stale = 0
           ELSE IF Val(d).t < now - 730 THEN future = 0 /\ stale = 1
           ELSE future = 0 /\ stale = 0

\* C23: check_claim raises at most one date contradiction per claim: 'in the
\* future' when the incident date is later than the evaluation time, 'more
\* than 2 years old' when it is earlier than the evaluation time minus 730
\* days, and none when the date is absent, is a string that cannot be
\* parsed, equals the evaluation time, or is exactly 730 days old.
C23_DateContradictions ==
    [][now' = now /\ op' = "check_claim" => DateContradictionExpected']_vars


\* C24: check_claim raises the 'description without logs' contradiction
\* exactly when has_system_logs is false and the incident description is
\* non-empty after trimming; a claim whose description is listed in
\* missing_required_evidence never gets this contradiction.
C24_DescriptionWithoutLogs ==
    Checked =>
        LET raised == Count("Incident description provided but no system logs uploaded",
                            ret.val.contradictions)
        IN  /\ raised = IF ~claim.has_system_logs /\ ~Blank(claim.incident_description)
                        THEN 1 ELSE 0
            /\ InSeq("incident_description", ret.val.missing_required_evidence)
                  => raised = 0


\* two policies with the same fields, an empty per_incident_type_limits
\* being the same as none
NoEmptyLimits(p) == _row_to_policy(_policy_to_row(p))

SamePolicy(a, b) == a # None /\ NoEmptyLimits(Val(a)) = NoEmptyLimits(b)

\* C25: after any sequence of PolicyStore.save calls and PolicyStore
\* constructions on the same database, get_by_policy_number(n) returns the
\* whole policy most recently saved under n, one record per policy number:
\* a save puts the whole policy under its number and leaves every other
\* record alone, a lookup changes no record, and constructing another store
\* does not overwrite a record saved since the seed was loaded.
C25_LastSavedIsKept ==
    [][/\ op' = "save" =>
            /\ SamePolicy(get_by_policy_number(db'["default"],
                                               Some(policy'.policy_number)), policy')
            /\ \A n \in DOMAIN db'["default"] \ {policy'.policy_number} :
                  n \in DOMAIN db["default"] /\ db'["default"][n] = db["default"][n]
       /\ op' = "get_by_policy_number" => db' = db
       /\ op # "none" /\ op' = "PolicyStore" =>
            \A n \in DOMAIN db["default"] : db'["default"][n] = db["default"][n]]_vars


\* the step from a granted auto-resolution to the payout of the same claim
PayoutAfterGranted ==
    /\ op = "can_auto_resolve"
    /\ ret.val
    /\ op' = "compute_payout"

\* C26: whenever can_auto_resolve returns true under the default resolution
\* rules (all three require_ flags true), compute_payout of the same claim
\* and policy returns a number, not None.
C26_AutoResolvedHasPayout ==
    [][(/\ PayoutAfterGranted
        /\ policy.resolution_rules.require_name_match
        /\ policy.resolution_rules.require_evidence_complete
        /\ policy.resolution_rules.require_incident_type_covered)
       => ret'.val # None]_vars

\* C27: whenever can_auto_resolve returns true and compute_payout returns a
\* number for the same claim and policy, the payout is at most
\* policy.resolution_rules.auto_resolve_max_amount.
C27_PayoutWithinAutoResolveMax ==
    [][PayoutAfterGranted /\ ret'.val # None
       => Val(ret'.val) <= policy.resolution_rules.auto_resolve_max_amount]_vars

\* a granted claim is paid its whole cost, which is the maximum itself
C27_Witness ==
    /\ op = "compute_payout"
    /\ can_auto_resolve(claim, policy, name_verified, fraud_flagged)
    /\ policy.deductible = 0
    /\ policy.resolution_rules.auto_resolve_max_amount = 2
    /\ ret.val = Some(2)


\* a is b with some of its elements left out
RECURSIVE IsSubsequence(_, _)
IsSubsequence(a, b) ==
    IF a = <<>> THEN TRUE
    ELSE IF b = <<>> THEN FALSE
    ELSE IF Head(a) = Head(b) THEN IsSubsequence(Tail(a), Tail(b))
    ELSE IsSubsequence(a, Tail(b))

\* C28: as evidence arrives for a claim (steps each turning one of
\* has_system_logs, has_incident_report, has_liability_assessment from false
\* to true, incident_type and cost unchanged) the list returned by
\* get_required_extra_info only shrinks: each later list is a subsequence of
\* the earlier one, and once it is empty it stays empty.
C28_ExtraInfoOnlyShrinks ==
    [][op = "get_required_extra_info" /\ op' = "get_required_extra_info"
       => /\ IsSubsequence(ret'.val, ret.val)
          /\ (ret.val = <<>> => ret'.val = <<>>)]_vars

\* the logs have arrived and the list has lost the prompt for them
C28_Witness ==
    /\ op = "get_required_extra_info"
    /\ policy.extra_info_rules =
          <<Rule(Condition("cost_gt", <<>>, 1), System_Logs, None, TRUE),
            Rule(Condition("cost_gt", <<>>, 1), incident_report,
                 Some(<<"Send the report">>), TRUE)>>
    /\ claim.cost = Some(2)
    /\ claim.has_system_logs
    /\ ~claim.has_incident_report
    /\ ret.val = <<<<"Send the report">>>>


\* C29: for every policy the schema accepts, once a claim has all three
\* evidence flags true (has_system_logs, has_incident_report,
\* has_liability_assessment) get_required_extra_info returns the empty
\* list, so the require_evidence_complete gate can be passed.
C29_AllEvidenceEmptiesList ==
    (/\ op = "get_required_extra_info"
     /\ claim.has_system_logs
     /\ claim.has_incident_report
     /\ claim.has_liability_assessment)
    => ret.val = <<>>

\* C30: verify_claimant_name returns false for every claimant name whenever
\* the policy's named_insured is empty after normalisation (empty or
\* whitespace only).
C30_BlankInsuredVerifiesNobody ==
    op = "verify_claimant_name" /\ StrStrip(policy.named_insured) = <<>>
        => ret.val = FALSE

====
